---- MODULE Spec2Model ----
(***************************************************************************)
(* FAQ generation pipeline of agentforce/data: response parsing            *)
(* (generate_faqs.py, batch_generator.py), batch scheduling                *)
(* (batch_generator.py), validation (validate_data.py) and the programs    *)
(* built on them (main of batch_generator.py, generate_faqs.py and         *)
(* salesforce_import.py).                                                  *)
(***************************************************************************)
EXTENDS Integers, Sequences, FiniteSets, TLC

VARIABLES
    \* ---- parser runs (SpecParse) ----
    text,         \* the raw response text handed to _parse_response
    category,     \* the category argument of _parse_response
    parser,       \* "none" | "banking" | "batch": which _parse_response has run
    parsed,       \* the sequence _parse_response returned
    \* ---- batch scheduler (Spec) and the programs' main (SpecMain) ----
    config,       \* which program runs, and whether the API key and the
                  \* prompt template are configured
    pc,           \* position of generate_all_batched, or of main
    categories,   \* the mapping passed in, as a sequence of <<name, count>> in dict order
    batch_size,   \* self.batch_size
    delay,        \* self.delay, in seconds
    cat_idx,      \* index of the (category, count) pair being processed
    batch_num,    \* loop variable of generate_category_batched
    num_batches,  \* num_batches of generate_category_batched
    cat_faqs,     \* all_faqs of generate_category_batched
    all_faqs,     \* all_faqs of generate_all_batched
    returned,     \* what generate_all_batched returned (valid when pc = "done")
    raised,       \* TRUE when an exception left generate_all_batched
    trace,        \* history: generation calls, their ends, and sleeps, in order
    \* ---- validator (SpecValidate) ----
    errors,       \* self.errors
    warnings,     \* self.warnings
    stats,        \* self.stats
    faqs,         \* the list passed to the last validate_faqs call, as it is afterwards
    result,       \* return value of the last validate_faqs call
    ncalls,       \* number of validate_faqs calls made on this instance
    before,       \* history: errors, warnings, stats and the list passed, as they
                  \* were when the last call began
    file,         \* what the path given to the last validate_file call holds
    caught,       \* the except clause the last validate_file call ended in,
                  \* "none" when it ended in none
    \* ---- AgentforceTester (SpecTester) ----
    tester,       \* the fields access_token, session_id and sequence_id
    flow,         \* position of run_full_test, then the exit of the script
    steps,        \* history: what the steps of run_full_test returned, in order
    http          \* history: the requests posted, each with its response

parseVars == <<text, category, parser, parsed>>
schedVars == <<config, pc, categories, batch_size, delay, cat_idx, batch_num, num_batches,
               cat_faqs, all_faqs, returned, raised, trace>>
valVars   == <<errors, warnings, stats, faqs, result, ncalls, before, file, caught>>
testVars  == <<tester, flow, steps, http>>
vars      == <<parseVars, schedVars, valVars, testVars>>

-----------------------------------------------------------------------------
(* Strings.  A Python str is modelled run-length encoded: a sequence of    *)
(* runs [ch, n] standing for n copies of the character ch, so that len,    *)
(* strip, endswith, lower and re.split act on it exactly.                  *)

Run(c, k) == [ch |-> c, n |-> k]

Whitespace == {" "}
Terminal   == {".", "!", "?"}

RECURSIVE StrLen(_)
StrLen(s) == IF s = <<>> THEN 0 ELSE Head(s).n + StrLen(Tail(s))

RECURSIVE LStrip(_)
LStrip(s) ==
    IF s = <<>> THEN <<>>
    ELSE IF Head(s).ch \in Whitespace \/ Head(s).n = 0 THEN LStrip(Tail(s))
    ELSE s

RECURSIVE RStrip(_)
RStrip(s) ==
    IF s = <<>> THEN <<>>
    ELSE IF s[Len(s)].ch \in Whitespace \/ s[Len(s)].n = 0
         THEN RStrip(SubSeq(s, 1, Len(s) - 1))
    ELSE s

Strip(s) == RStrip(LStrip(s))

EndsWith(s, c) == s # <<>> /\ s[Len(s)].ch = c /\ s[Len(s)].n > 0

LowerCh(c) == IF c = "A" THEN "a" ELSE IF c = "B" THEN "b" ELSE c

\* Canonical form: lower-cased, adjacent runs of one character merged.
RECURSIVE Lower(_)
Lower(s) ==
    IF s = <<>> THEN <<>>
    ELSE LET h == Run(LowerCh(Head(s).ch), Head(s).n)
             r == Lower(Tail(s))
         IN  IF h.n = 0 THEN r
             ELSE IF r # <<>> /\ Head(r).ch = h.ch
                  THEN <<Run(h.ch, h.n + Head(r).n)>> \o Tail(r)
             ELSE <<h>> \o r

\* bool(s) of a str: non-empty
Truthy(s) == StrLen(s) > 0

-----------------------------------------------------------------------------
(* JSON values as json.loads returns them.                                 *)
(*   kind "object": a dict, obj maps the keys present to their values      *)
(*   kind "array" : a list, items its elements                             *)
(*   kind "str"   : a non-empty string containing neither key name         *)
(*   kind "strqa" : a string containing both "question" and "answer"       *)
(*   kind "emptystr" : the string ""                                       *)
(*   kind "null"  : None                                                   *)

NoObj == [k \in {} |-> 0]

JObject(o)  == [kind |-> "object", items |-> <<>>, obj |-> o]
JArray(its) == [kind |-> "array", items |-> its, obj |-> NoObj]
JScalar(k)  == [kind |-> k, items |-> <<>>, obj |-> NoObj]

\* dict[k] = v
SetKey(o, k, v) == [x \in DOMAIN o \cup {k} |-> IF x = k THEN v ELSE o[x]]

\* dict.setdefault(k, v)
SetDefault(o, k, v) == IF k \in DOMAIN o THEN o ELSE SetKey(o, k, v)

-----------------------------------------------------------------------------
(* Response texts.  A text is a sequence of segments:                      *)
(*   "ws"     whitespace                                                   *)
(*   "fence"  the delimiter ```                                            *)
(*   "tag"    the four characters json                                     *)
(*   "prose"  words that are no JSON and begin with neither [ nor {        *)
(*   "bprose" words that are no JSON but begin with [                      *)
(*   "jv"     the serialisation of the JSON value v (never a number, so    *)
(*            that two adjacent values never read as one)                  *)

Seg(kind)  == [t |-> kind, v |-> JScalar("null")]
JsonSeg(j) == [t |-> "jv", v |-> j]

\* str.strip() on a text
RECURSIVE TextLStrip(_)
TextLStrip(tx) ==
    IF tx # <<>> /\ Head(tx).t = "ws" THEN TextLStrip(Tail(tx)) ELSE tx

RECURSIVE TextRStrip(_)
TextRStrip(tx) ==
    IF tx # <<>> /\ tx[Len(tx)].t = "ws"
    THEN TextRStrip(SubSeq(tx, 1, Len(tx) - 1)) ELSE tx

TextStrip(tx) == TextRStrip(TextLStrip(tx))

\* '```' in text
HasFence(tx) == \E i \in 1..Len(tx) : tx[i].t = "fence"

\* text.split('```'): the fragments between the delimiters, in order
RECURSIVE SplitFence(_)
SplitFence(tx) ==
    IF ~HasFence(tx) THEN <<tx>>
    ELSE LET i == CHOOSE k \in 1..Len(tx) :
                      /\ tx[k].t = "fence"
                      /\ \A m \in 1..(k - 1) : tx[m].t # "fence"
         IN  <<SubSeq(tx, 1, i - 1)>> \o SplitFence(SubSeq(tx, i + 1, Len(tx)))

\* part.startswith('json')
StartsWithTag(tx) == tx # <<>> /\ Head(tx).t = "tag"

\* part.startswith('[') or part.startswith('{')
StartsWithBracket(tx) ==
    /\ tx # <<>>
    /\ \/ Head(tx).t = "bprose"
       \/ Head(tx).t = "jv" /\ Head(tx).v.kind \in {"array", "object"}

\* json.loads(text): one JSON value, surrounded by optional whitespace;
\* anything else raises JSONDecodeError (ok = FALSE).
JsonLoads(tx) ==
    LET s == TextStrip(tx)
    IN  IF Len(s) = 1 /\ s[1].t = "jv"
        THEN [ok |-> TRUE, v |-> s[1].v]
        ELSE [ok |-> FALSE, v |-> JScalar("null")]

-----------------------------------------------------------------------------
(* BankingFAQGenerator._parse_response (generate_faqs.py)                  *)

\* the for loop over the fragments, lines 83-90: the first fragment that
\* starts with json or with a bracket is taken
RECURSIVE BankingExtract(_, _)
BankingExtract(parts, whole) ==
    IF parts = <<>> THEN whole
    ELSE LET part == TextStrip(Head(parts))
         IN  IF StartsWithTag(part) THEN TextStrip(Tail(part))
             ELSE IF StartsWithBracket(part) THEN part
             ELSE BankingExtract(Tail(parts), whole)

\* lines 78-90: the text that is handed to json.loads
BankingFenceStrip(tx) ==
    LET t0 == TextStrip(tx)
    IN  IF HasFence(t0) THEN BankingExtract(SplitFence(t0), t0) ELSE t0

\* mutant of BankingClean: the default difficulty is 'easy'
BankingCleanEasy(o, cat) ==
    SetDefault(
      SetDefault(
        SetDefault(
          SetDefault(SetKey(o, "category", cat), "keywords", [list |-> TRUE, n |-> 0]),
          "difficulty", "easy"),
        "segment", "retail"),
      "subcategory", cat)

\* mutant of BankingClean: the difficulty is assigned, not defaulted
BankingCleanOverwrite(o, cat) ==
    SetDefault(
      SetDefault(
        SetKey(
          SetDefault(SetKey(o, "category", cat), "keywords", [list |-> TRUE, n |-> 0]),
          "difficulty", "basic"),
        "segment", "retail"),
      "subcategory", cat)

\* lines 104-110: category overwritten, the four defaults
BankingClean(o, cat) ==
    SetDefault(
      SetDefault(
        SetDefault(
          SetDefault(SetKey(o, "category", cat), "keywords", [list |-> TRUE, n |-> 0]),
          "difficulty", "basic"),
        "segment", "retail"),
      "subcategory", cat)

\* 'question' in faq and 'answer' in faq, for the element kinds; "raise"
\* when the test itself is a TypeError
BankingHasKeys(e) ==
    CASE e.kind = "object" -> IF {"question", "answer"} \subseteq DOMAIN e.obj
                              THEN "yes" ELSE "no"
      [] e.kind = "strqa"  -> "yes"
      [] e.kind = "null"   -> "raise"
      [] OTHER             -> "no"

\* the for loop of lines 101-112; ok = FALSE when a TypeError was raised
RECURSIVE BankingLoop(_, _, _)
BankingLoop(items, cat, cleaned) ==
    IF items = <<>> THEN [ok |-> TRUE, recs |-> cleaned]
    ELSE LET e == Head(items)
             has == BankingHasKeys(e)
         IN  IF has = "raise" THEN [ok |-> FALSE, recs |-> <<>>]
             ELSE IF has = "no" THEN BankingLoop(Tail(items), cat, cleaned)
             ELSE IF e.kind # "object" THEN [ok |-> FALSE, recs |-> <<>>]
             ELSE BankingLoop(Tail(items), cat,
                              Append(cleaned, BankingClean(e.obj, cat)))

\* iterating the decoded value (line 96-101): a dict is wrapped, a list is
\* walked, a string yields characters (none of which holds a key), None raises
BankingIterate(j) ==
    CASE j.kind = "object" -> [ok |-> TRUE, items |-> <<j>>]
      [] j.kind = "array"  -> [ok |-> TRUE, items |-> j.items]
      [] j.kind = "null"   -> [ok |-> FALSE, items |-> <<>>]
      [] OTHER             -> [ok |-> TRUE, items |-> <<>>]

\* the body of the try block, lines 77-114; ok = FALSE when it raised
BankingParseBody(tx, cat) ==
    LET d == JsonLoads(BankingFenceStrip(tx))
    IN  IF ~d.ok THEN [ok |-> FALSE, recs |-> <<>>]
        ELSE LET it == BankingIterate(d.v)
             IN  IF ~it.ok THEN [ok |-> FALSE, recs |-> <<>>]
                 ELSE BankingLoop(it.items, cat, <<>>)

\* the whole method: both except clauses (lines 116-122) return []
BankingParse(tx, cat) ==
    LET b == BankingParseBody(tx, cat)
    IN  IF b.ok THEN [raised |-> FALSE, recs |-> b.recs]
        ELSE [raised |-> FALSE, recs |-> <<>>]

-----------------------------------------------------------------------------
(* BatchFAQGenerator._parse_response (batch_generator.py)                  *)

\* lines 73-79: the second fragment is taken, json removed only when the
\* fragment starts with it (no strip before the test)
BatchFenceStrip(tx) ==
    LET t0 == TextStrip(tx)
    IN  IF HasFence(t0)
        THEN LET part == SplitFence(t0)[2]
             IN  TextStrip(IF StartsWithTag(part) THEN Tail(part) ELSE part)
        ELSE t0

\* mutant of BatchLoop: the category is only filled in when the object has none
RECURSIVE BatchLoopKeepCategory(_, _, _)
BatchLoopKeepCategory(items, cat, out) ==
    IF items = <<>> THEN [ok |-> TRUE, recs |-> out]
    ELSE IF Head(items).kind # "object" THEN [ok |-> FALSE, recs |-> <<>>]
    ELSE BatchLoopKeepCategory(Tail(items), cat,
                               Append(out, SetDefault(Head(items).obj, "category", cat)))

\* lines 87-88: faq['category'] = category; a TypeError on anything but a dict
RECURSIVE BatchLoop(_, _, _)
BatchLoop(items, cat, out) ==
    IF items = <<>> THEN [ok |-> TRUE, recs |-> out]
    ELSE IF Head(items).kind # "object" THEN [ok |-> FALSE, recs |-> <<>>]
    ELSE BatchLoop(Tail(items), cat,
                   Append(out, SetKey(Head(items).obj, "category", cat)))

\* what "for faq in faqs" walks (lines 83-87): a non-empty string yields
\* characters, on which the item assignment raises
BatchIterate(j) ==
    CASE j.kind = "object"   -> [ok |-> TRUE, items |-> <<j>>]
      [] j.kind = "array"    -> [ok |-> TRUE, items |-> j.items]
      [] j.kind = "emptystr" -> [ok |-> TRUE, items |-> <<>>]
      [] OTHER               -> [ok |-> FALSE, items |-> <<>>]

\* the body of the try block, lines 82-90; ok = FALSE when it raised
BatchParseBody(tx, cat) ==
    LET d == JsonLoads(BatchFenceStrip(tx))
    IN  IF ~d.ok THEN [ok |-> FALSE, recs |-> <<>>]
        ELSE LET it == BatchIterate(d.v)
             IN  IF ~it.ok THEN [ok |-> FALSE, recs |-> <<>>]
                 ELSE BatchLoop(it.items, cat, <<>>)

\* mutant of BatchParse: the except clause is missing
BatchParseReraise(tx, cat) ==
    LET b == BatchParseBody(tx, cat)
    IN  IF b.ok THEN [raised |-> FALSE, recs |-> b.recs]
        ELSE [raised |-> TRUE, recs |-> <<>>]

\* the whole method: the bare except (lines 91-92) returns []
BatchParse(tx, cat) ==
    LET b == BatchParseBody(tx, cat)
    IN  IF b.ok THEN [raised |-> FALSE, recs |-> b.recs]
        ELSE [raised |-> FALSE, recs |-> <<>>]

-----------------------------------------------------------------------------
(* Inputs of the parser runs.                                              *)

MaxItems == 2     \* longest decoded array
MaxSegs  == 3     \* longest free-form text, in segments

Q1 == <<Run("a", 12), Run("?", 1)>>
Q2 == <<Run("b", 30), Run("?", 1)>>
A1 == <<Run("a", 120), Run(".", 1)>>

\* the keys other than question and answer, all given (with an upstream
\* category and an out-of-set difficulty)
ExtraFields ==
    [category |-> "Upstream", subcategory |-> "Sub",
     keywords |-> [list |-> TRUE, n |-> 2],
     difficulty |-> "extreme", segment |-> "business"]

\* the objects a response holds: complete ones, and ones whose question or
\* answer is empty or absent
UpstreamObjects ==
    { [question |-> Q1, answer |-> A1] @@ ExtraFields,
      [question |-> Q2, answer |-> A1],
      [question |-> <<>>, answer |-> A1],
      [question |-> Q1, answer |-> <<>>],
      [answer |-> A1],
      [question |-> Q1] }

Elements ==
    { JObject(o) : o \in UpstreamObjects }
      \cup { JScalar("str"), JScalar("strqa"), JScalar("null") }

Arrays == UNION { { JArray(its) : its \in [1..n -> Elements] } : n \in 0..MaxItems }

Payloads ==
    Arrays \cup { JObject(o) : o \in UpstreamObjects }
           \cup { JScalar("str"), JScalar("strqa"), JScalar("emptystr"), JScalar("null") }

\* a second, recognisable value for texts that hold two JSON values
AltJson == JArray(<<JObject([question |-> Q2, answer |-> A1])>>)

\* the usual ways a response wraps its payload
Wrapped(p) ==
    { <<JsonSeg(p)>>,
      <<Seg("ws"), JsonSeg(p), Seg("ws")>>,
      <<Seg("fence"), Seg("tag"), Seg("ws"), JsonSeg(p), Seg("ws"), Seg("fence")>>,
      <<Seg("fence"), Seg("ws"), JsonSeg(p), Seg("ws"), Seg("fence")>>,
      <<Seg("prose"), Seg("ws"), Seg("fence"), Seg("tag"), Seg("ws"), JsonSeg(p),
        Seg("ws"), Seg("fence"), Seg("ws"), Seg("prose")>>,
      <<Seg("fence"), Seg("ws"), Seg("tag"), Seg("ws"), JsonSeg(p), Seg("fence")>>,
      <<JsonSeg(AltJson), Seg("fence"), Seg("tag"), JsonSeg(p), Seg("fence")>>,
      <<Seg("tag"), Seg("prose"), Seg("fence"), JsonSeg(p), Seg("fence")>>,
      <<Seg("prose"), Seg("fence"), Seg("tag"), JsonSeg(p)>>,
      <<Seg("bprose"), Seg("fence"), JsonSeg(p), Seg("fence")>> }

\* every text of at most MaxSegs segments, over a few payloads
SmallPayloads ==
    { JArray(<<JObject([question |-> Q1, answer |-> A1, category |-> "Upstream"])>>),
      JObject([question |-> Q1, answer |-> A1]),
      JScalar("emptystr") }

Alphabet(p) ==
    { Seg("ws"), Seg("fence"), Seg("tag"), Seg("prose"), Seg("bprose"),
      JsonSeg(p), JsonSeg(AltJson) }

FreeTexts ==
    UNION { UNION { [1..n -> Alphabet(p)] : n \in 0..MaxSegs } : p \in SmallPayloads }

Texts == (UNION { Wrapped(p) : p \in Payloads }) \cup FreeTexts

ParseCategories == {"Loans", ""}

-----------------------------------------------------------------------------
(* Values the variables of the other components hold while one runs.       *)

ParseIdle == /\ text = <<>>
             /\ category = ""
             /\ parser = "none"
             /\ parsed = [raised |-> FALSE, recs |-> <<>>]

\* a generator that was constructed: the key is there
Configured == [program |-> "batch_generator", api_key |-> TRUE, prompt |-> TRUE]

SchedIdle == /\ config = Configured
             /\ pc = "idle"
             /\ categories = <<>>
             /\ batch_size = 1
             /\ delay = 0
             /\ cat_idx = 0
             /\ batch_num = 0
             /\ num_batches = 0
             /\ cat_faqs = <<>>
             /\ all_faqs = <<>>
             /\ returned = <<>>
             /\ raised = FALSE
             /\ trace = <<>>

NewStats == [total |-> 0, valid |-> 0, invalid |-> 0, warnings |-> 0]

\* no validate_file call was made
NoFile == [kind |-> "none", top |-> "none", items |-> <<>>]

ValIdle == /\ errors = <<>>
           /\ warnings = <<>>
           /\ stats = NewStats
           /\ faqs = <<>>
           /\ result = TRUE
           /\ ncalls = 0
           /\ before = [errors |-> <<>>, warnings |-> <<>>, stats |-> NewStats,
                        faqs |-> <<>>]
           /\ file = NoFile
           /\ caught = "none"

\* Python values of the fields and of the JSON bodies: None, or a str
PyNone   == [py |-> "None", s |-> ""]
PyStr(x) == [py |-> "str", s |-> x]

\* truth value of such a value: None and '' are false
IsSet(v) == v.py = "str" /\ v.s # ""

\* test_full_flow.py lines 31-33
NewTester == [access_token |-> PyNone, session_id |-> PyNone, sequence_id |-> 1]

TestIdle == /\ tester = NewTester
            /\ flow = "idle"
            /\ steps = <<>>
            /\ http = <<>>

-----------------------------------------------------------------------------
(* Parser runs: one response, one category, one of the two parsers.        *)

InitParse ==
    /\ text \in Texts
    /\ category \in ParseCategories
    /\ parser = "none"
    /\ parsed = [raised |-> FALSE, recs |-> <<>>]
    /\ SchedIdle
    /\ ValIdle
    /\ TestIdle

RunBankingParse ==
    /\ parser = "none"
    /\ parser' = "banking"
    /\ parsed' = BankingParse(text, category)
    /\ UNCHANGED <<text, category, schedVars, valVars, testVars>>

RunBatchParse ==
    /\ parser = "none"
    /\ parser' = "batch"
    /\ parsed' = BatchParse(text, category)
    /\ UNCHANGED <<text, category, schedVars, valVars, testVars>>

NextParse == RunBankingParse \/ RunBatchParse

SpecParse == InitParse /\ [][NextParse]_vars

-----------------------------------------------------------------------------
(* C1: a response whose decoded value is an array of objects (or a single  *)
(* object), each with a non-empty question and answer, yields exactly one  *)
(* record per object, in order, each with category = the category argument.*)

FenceStripOf(who, tx) ==
    IF who = "banking" THEN BankingFenceStrip(tx) ELSE BatchFenceStrip(tx)

HasText(o, k) == k \in DOMAIN o /\ Truthy(o[k])

WellFormedObject(j) ==
    j.kind = "object" /\ HasText(j.obj, "question") /\ HasText(j.obj, "answer")

DecodedObjects(j) == IF j.kind = "object" THEN <<j>> ELSE j.items

WellFormedResponse(d) ==
    /\ d.ok
    /\ d.v.kind \in {"array", "object"}
    /\ \A i \in 1..Len(DecodedObjects(d.v)) : WellFormedObject(DecodedObjects(d.v)[i])

C1_OneRecordPerObject ==
    parser # "none" =>
        LET d == JsonLoads(FenceStripOf(parser, text))
        IN  WellFormedResponse(d) =>
              LET objs == DecodedObjects(d.v)
              IN  /\ ~parsed.raised
                  /\ Len(parsed.recs) = Len(objs)
                  /\ \A i \in 1..Len(objs) :
                        /\ parsed.recs[i].category = category
                        /\ parsed.recs[i].question = objs[i].obj.question
                        /\ parsed.recs[i].answer = objs[i].obj.answer

\* two objects, the first carrying its own category, parsed by the batch parser
C1_Witness ==
    /\ parser = "batch"
    /\ HasFence(text)
    /\ LET d == JsonLoads(BatchFenceStrip(text))
       IN  /\ WellFormedResponse(d)
           /\ d.v.kind = "array"
           /\ Len(d.v.items) = 2
           /\ "category" \in DOMAIN d.v.items[1].obj
           /\ d.v.items[1].obj.category # category
           /\ d.v.items[1].obj.question # d.v.items[2].obj.question
    /\ Len(parsed.recs) = 2

(* C2: a response that is not decodable as JSON after fence-stripping      *)
(* (the empty string included) yields an empty sequence, and no exception  *)
(* leaves the parser.                                                      *)
C2_UndecodableYieldsNothing ==
    (parser # "none" /\ ~JsonLoads(FenceStripOf(parser, text)).ok)
        => parsed = [raised |-> FALSE, recs |-> <<>>]

C2_Witness ==
    /\ parser = "batch"
    /\ text = <<>>
    /\ ~JsonLoads(BatchFenceStrip(text)).ok
    /\ parsed = [raised |-> FALSE, recs |-> <<>>]

-----------------------------------------------------------------------------
(* BatchFAQGenerator: generate_batch, generate_category_batched and        *)
(* generate_all_batched (batch_generator.py).                              *)

MaxCount     == 2    \* largest requested count of a category
MaxBatchSize == 2    \* largest batch_size

\* self.delay: the default of 2 seconds, or RATE_LIMIT_DELAY set to 1
Delays == {1, 2}

CategoryDelay == 1   \* time.sleep(1) between categories

\* the mappings handed to generate_all_batched, in dict order (keys distinct)
KeyOrders == { <<>>, <<"Loans">>, <<"Loans", "Cards">>, <<"Cards", "Loans">> }

Mappings ==
    UNION { { [i \in 1..Len(ks) |-> <<ks[i], cnt[i]>>] :
                cnt \in [1..Len(ks) -> 0..MaxCount] } : ks \in KeyOrders }

\* the runs explored: every small mapping with every small batch size, and
\* the run of 25 records in batches of 10
Runs ==
    { [cats |-> m, size |-> b] : m \in Mappings, b \in 1..MaxBatchSize }
      \cup { [cats |-> << <<"Loans", 25>> >>, size |-> 10] }

\* what model.generate_content can do: raise, or return a text
GoodText ==
    <<Seg("fence"), Seg("tag"), Seg("ws"),
      JsonSeg(JArray(<<JObject([question |-> Q1, answer |-> A1, category |-> "Upstream"]),
                       JObject([question |-> Q2, answer |-> A1])>>)),
      Seg("ws"), Seg("fence")>>

BadText == <<Seg("prose"), Seg("ws"), Seg("bprose")>>

Outcomes ==
    { [fails |-> TRUE, text |-> <<>>],
      [fails |-> FALSE, text |-> GoodText],
      [fails |-> FALSE, text |-> BadText] }

\* mutant of NumBatches: the division rounds down
NumBatchesFloor(total_count, size) == total_count \div size

\* line 96
NumBatches(total_count, size) == (total_count + size - 1) \div size

\* mutant of NeedsDelay: the sleep is taken after the last batch too
NeedsDelayAlways(num, total) == num <= total

\* line 111: the rate-limiting sleep is taken except after the last batch
NeedsDelay(num, total) == num < total

\* mutant of CurrentPair: the mapping is walked backwards
CurrentPairReversed(cats, i) == cats[Len(cats) + 1 - i]

\* line 125: the pair the i-th iteration of categories.items() yields
CurrentPair(cats, i) == cats[i]

\* the try block of generate_batch, lines 65-66; ok = FALSE when it raised
GenerateBatchBody(outcome, cat) ==
    IF outcome.fails THEN [ok |-> FALSE, recs |-> <<>>]
    ELSE LET r == BatchParse(outcome.text, cat)
         IN  IF r.raised THEN [ok |-> FALSE, recs |-> <<>>]
             ELSE [ok |-> TRUE, recs |-> r.recs]

\* mutant of GenerateBatch: no except clause around the call
GenerateBatchNoExcept(outcome, cat) ==
    LET b == GenerateBatchBody(outcome, cat)
    IN  IF b.ok THEN [raised |-> FALSE, recs |-> b.recs]
        ELSE [raised |-> TRUE, recs |-> <<>>]

\* generate_batch: except Exception returns [] (lines 67-69)
GenerateBatch(outcome, cat) ==
    LET b == GenerateBatchBody(outcome, cat)
    IN  IF b.ok THEN [raised |-> FALSE, recs |-> b.recs]
        ELSE [raised |-> FALSE, recs |-> <<>>]

NoOutcome == [fails |-> FALSE, text |-> <<>>]

\* an entry of the history: what happened, for which batch, and (for the end
\* of a call) what the service did and what generate_batch returned
Event(kind, cat, num, total, secs, out, recs) ==
    [ev |-> kind, cat |-> cat, num |-> num, total |-> total,
     secs |-> secs, out |-> out, recs |-> recs]

Init ==
    /\ config = Configured
    /\ \E r \in Runs : categories = r.cats /\ batch_size = r.size
    /\ delay \in Delays
    /\ pc = "all_loop"
    /\ cat_idx = 0
    /\ batch_num = 0
    /\ num_batches = 0
    /\ cat_faqs = <<>>
    /\ all_faqs = <<>>
    /\ returned = <<>>
    /\ raised = FALSE
    /\ trace = <<>>
    /\ ParseIdle
    /\ ValIdle
    /\ TestIdle

\* line 125-126 and 96-100: the next pair of the mapping, entering
\* generate_category_batched
StartCategory ==
    /\ pc = "all_loop"
    /\ cat_idx < Len(categories)
    /\ cat_idx' = cat_idx + 1
    /\ num_batches' = NumBatches(CurrentPair(categories, cat_idx + 1)[2], batch_size)
    /\ cat_faqs' = <<>>
    /\ batch_num' = 0
    /\ pc' = "batch_loop"
    /\ UNCHANGED <<config, categories, batch_size, delay, all_faqs, returned, raised, trace,
                   parseVars, valVars, testVars>>

\* mutant of PromptCount: the last batch of a category asks for one record
PromptCountLastOne(size, cat, num, total) == IF num = total THEN 1 ELSE size

\* lines 44-45: the number of records the prompt of generate_batch asks
\* for, "Generate {self.batch_size} unique FAQs", whatever the batch
PromptCount(size, cat, num, total) == size

\* the call of generate_batch(category, batch_num, num_batches) of line
\* 105, with the number of records its prompt asks for
CallEvent(size, cat, num, total) ==
    Event("call", cat, num, total, 0, NoOutcome, <<>>)
       @@ [requested |-> PromptCount(size, cat, num, total)]

\* mutant of IssueCall: a batch whose call raised is issued once more
IssueCallRetry ==
    /\ pc = "batch_loop"
    /\ LET cat   == CurrentPair(categories, cat_idx)[1]
           again == /\ trace # <<>>
                    /\ trace[Len(trace)].ev = "failed"
                    /\ Cardinality({ i \in 1..Len(trace) :
                                       /\ trace[i].ev = "call"
                                       /\ trace[i].cat = cat
                                       /\ trace[i].num = batch_num }) = 1
           num   == IF again THEN batch_num ELSE batch_num + 1
       IN  /\ again \/ batch_num < num_batches
           /\ batch_num' = num
           /\ trace' = Append(trace, CallEvent(batch_size, cat, num, num_batches))
    /\ pc' = "in_call"
    /\ UNCHANGED <<config, categories, batch_size, delay, cat_idx, num_batches, cat_faqs,
                   all_faqs, returned, raised, parseVars, valVars, testVars>>

\* line 102-105: the next batch_num of the range, and the generation call
IssueCall ==
    /\ pc = "batch_loop"
    /\ batch_num < num_batches
    /\ batch_num' = batch_num + 1
    /\ trace' = Append(trace, CallEvent(batch_size, CurrentPair(categories, cat_idx)[1],
                                        batch_num + 1, num_batches))
    /\ pc' = "in_call"
    /\ UNCHANGED <<config, categories, batch_size, delay, cat_idx, num_batches, cat_faqs,
                   all_faqs, returned, raised, parseVars, valVars, testVars>>

\* lines 64-69 and 105-111: the call ends (it returns a text or raises),
\* generate_batch returns, the records are appended
CallEnds ==
    /\ pc = "in_call"
    /\ \E outcome \in Outcomes :
         LET cat == CurrentPair(categories, cat_idx)[1]
             g   == GenerateBatch(outcome, cat)
         IN  /\ trace' = Append(trace, Event(IF outcome.fails THEN "failed" ELSE "returned",
                                             cat, batch_num, num_batches, 0, outcome,
                                             IF g.raised THEN <<>> ELSE g.recs))
             /\ IF g.raised
                THEN /\ raised' = TRUE
                     /\ pc' = "done"
                     /\ cat_faqs' = cat_faqs
                ELSE /\ raised' = FALSE
                     /\ cat_faqs' = cat_faqs \o g.recs
                     /\ pc' = IF NeedsDelay(batch_num, num_batches)
                              THEN "sleep" ELSE "batch_loop"
    /\ UNCHANGED <<config, categories, batch_size, delay, cat_idx, batch_num, num_batches,
                   all_faqs, returned, parseVars, valVars, testVars>>

\* line 112: time.sleep(self.delay)
SleepBetweenBatches ==
    /\ pc = "sleep"
    /\ trace' = Append(trace, Event("sleep", CurrentPair(categories, cat_idx)[1],
                                    batch_num, num_batches, delay, NoOutcome, <<>>))
    /\ pc' = "batch_loop"
    /\ UNCHANGED <<config, categories, batch_size, delay, cat_idx, batch_num, num_batches,
                   cat_faqs, all_faqs, returned, raised, parseVars, valVars, testVars>>

\* mutant of EndCategory: the records of the category are put in front
EndCategoryPrepends ==
    /\ pc = "batch_loop"
    /\ batch_num >= num_batches
    /\ all_faqs' = cat_faqs \o all_faqs
    /\ trace' = Append(trace, Event("category_sleep", CurrentPair(categories, cat_idx)[1],
                                    batch_num, num_batches, CategoryDelay, NoOutcome,
                                    cat_faqs))
    /\ pc' = "all_loop"
    /\ UNCHANGED <<config, categories, batch_size, delay, cat_idx, batch_num, num_batches,
                   cat_faqs, returned, raised, parseVars, valVars, testVars>>

\* mutant of EndCategory: the sleep between categories takes self.delay
EndCategorySleepsDelay ==
    /\ pc = "batch_loop"
    /\ batch_num >= num_batches
    /\ all_faqs' = all_faqs \o cat_faqs
    /\ trace' = Append(trace, Event("category_sleep", CurrentPair(categories, cat_idx)[1],
                                    batch_num, num_batches, delay, NoOutcome,
                                    cat_faqs))
    /\ pc' = "all_loop"
    /\ UNCHANGED <<config, categories, batch_size, delay, cat_idx, batch_num, num_batches,
                   cat_faqs, returned, raised, parseVars, valVars, testVars>>

\* mutant of EndCategory: a category that yielded nothing stops the run
EndCategoryStopsOnEmpty ==
    /\ pc = "batch_loop"
    /\ batch_num >= num_batches
    /\ all_faqs' = all_faqs \o cat_faqs
    /\ trace' = Append(trace, Event("category_sleep", CurrentPair(categories, cat_idx)[1],
                                    batch_num, num_batches, CategoryDelay, NoOutcome,
                                    cat_faqs))
    /\ pc' = IF cat_faqs = <<>> THEN "halted" ELSE "all_loop"
    /\ UNCHANGED <<config, categories, batch_size, delay, cat_idx, batch_num, num_batches,
                   cat_faqs, returned, raised, parseVars, valVars, testVars>>

\* lines 115 and 126-130: generate_category_batched returns, the aggregate is
\* extended, time.sleep(1)
EndCategory ==
    /\ pc = "batch_loop"
    /\ batch_num >= num_batches
    /\ all_faqs' = all_faqs \o cat_faqs
    /\ trace' = Append(trace, Event("category_sleep", CurrentPair(categories, cat_idx)[1],
                                    batch_num, num_batches, CategoryDelay, NoOutcome,
                                    cat_faqs))
    /\ pc' = "all_loop"
    /\ UNCHANGED <<config, categories, batch_size, delay, cat_idx, batch_num, num_batches,
                   cat_faqs, returned, raised, parseVars, valVars, testVars>>

\* line 132
ReturnAll ==
    /\ pc = "all_loop"
    /\ cat_idx >= Len(categories)
    /\ returned' = all_faqs
    /\ pc' = "done"
    /\ UNCHANGED <<config, categories, batch_size, delay, cat_idx, batch_num, num_batches,
                   cat_faqs, all_faqs, raised, trace, parseVars, valVars, testVars>>

Next ==
    \/ StartCategory
    \/ IssueCall
    \/ CallEnds
    \/ SleepBetweenBatches
    \/ EndCategory
    \/ ReturnAll

Spec == Init /\ [][Next]_vars

-----------------------------------------------------------------------------
(* Reading the history of a run.                                           *)

IsCall(e) == e.ev = "call"
IsEnd(e)  == e.ev \in {"failed", "returned"}

Calls == SelectSeq(trace, IsCall)

CallsOf(c) == SelectSeq(trace, LAMBDA e : e.ev = "call" /\ e.cat = c)

SleepsOf(c) == SelectSeq(trace, LAMBDA e : e.ev = "sleep" /\ e.cat = c)

\* position of a category in the supplied mapping
CatPos(c) == CHOOSE k \in 1..Len(categories) : categories[k][1] = c

CountOf(c) == categories[CatPos(c)][2]

\* ceil(a / b) for a >= 0, b >= 1
Ceil(a, b) == CHOOSE k \in 0..a : k * b >= a /\ (k = 0 \/ (k - 1) * b < a)

RECURSIVE ConcatRecs(_)
ConcatRecs(evs) ==
    IF evs = <<>> THEN <<>> ELSE Head(evs).recs \o ConcatRecs(Tail(evs))

\* the service raised, or its text does not decode
BatchFailed(e) ==
    IsEnd(e) /\ (e.out.fails \/ ~JsonLoads(BatchFenceStrip(e.out.text)).ok)

(* C3: a category of totalCount records with batch size >= 1 gets exactly  *)
(* ceil(totalCount / batchSize) generation calls, each with                *)
(* 1 <= batchIndex <= batchCount = ceil(totalCount / batchSize); 25 records *)
(* in batches of 10 give calls 1, 2, 3 of 3.                               *)
C3_CeilCalls ==
    /\ \A i \in 1..Len(trace) :
          IsCall(trace[i]) =>
             /\ 1 <= trace[i].num
             /\ trace[i].num <= trace[i].total
             /\ trace[i].total = Ceil(CountOf(trace[i].cat), batch_size)
    /\ pc = "done" =>
          \A k \in 1..Len(categories) :
             Len(CallsOf(categories[k][1])) = Ceil(categories[k][2], batch_size)
    /\ (pc = "done" /\ categories = << <<"Loans", 25>> >> /\ batch_size = 10) =>
          /\ [i \in 1..Len(Calls) |-> Calls[i].num] = <<1, 2, 3>>
          /\ \A i \in 1..Len(Calls) : Calls[i].total = 3

C3_Witness ==
    /\ pc = "done"
    /\ categories = << <<"Loans", 25>> >>
    /\ batch_size = 10
    /\ Len(Calls) = 3

(* C4: a batch whose call raises or whose response does not decode yields  *)
(* zero records; the records of earlier batches are kept; the remaining    *)
(* batches and categories still run; no exception leaves the scheduler.    *)
C4_FailureAbsorbed ==
    /\ ~raised
    /\ \A i \in 1..Len(trace) : BatchFailed(trace[i]) => trace[i].recs = <<>>
    /\ (IF pc \in {"batch_loop", "in_call", "sleep"}
        THEN all_faqs \o cat_faqs ELSE all_faqs)
          = ConcatRecs(SelectSeq(trace, IsEnd))
    /\ pc = "done" =>
          /\ returned = ConcatRecs(SelectSeq(trace, IsEnd))
          /\ \A k \in 1..Len(categories) :
                Len(CallsOf(categories[k][1]))
                   = Ceil(categories[k][2], batch_size)

\* a run of two categories: records and then a raise in the first, an
\* undecodable text and then records in the second
C4_Witness ==
    /\ pc = "done"
    /\ Len(categories) = 2
    /\ \E i, j, k, m \in 1..Len(trace) :
          /\ i < j /\ j < k /\ k < m
          /\ IsEnd(trace[i]) /\ trace[i].recs # <<>>
          /\ trace[j].ev = "failed" /\ trace[j].cat = trace[i].cat
          /\ trace[k].ev = "returned" /\ BatchFailed(trace[k])
          /\ trace[k].cat # trace[i].cat
          /\ IsEnd(trace[m]) /\ trace[m].cat = trace[k].cat /\ trace[m].recs # <<>>
    /\ Len(returned) = 4

(* C5: in a run, the generation call of a (category, batchIndex) is made   *)
(* at most once, whatever its outcome: a failed batch is not issued again. *)
C5_AtMostOnce ==
    \A i, j \in 1..Len(trace) :
       (IsCall(trace[i]) /\ IsCall(trace[j])
          /\ trace[i].cat = trace[j].cat /\ trace[i].num = trace[j].num) => i = j

C5_Witness ==
    /\ pc = "done"
    /\ \E i \in 1..Len(trace) :
          /\ BatchFailed(trace[i])
          /\ trace[i].num = trace[i].total
          /\ Len(SelectSeq(trace, LAMBDA e : IsCall(e) /\ e.cat = trace[i].cat
                                             /\ e.num = trace[i].num)) = 1

(* C6: the calls of a category carry batchIndex 1, 2, ..., batchCount in   *)
(* this order; categories come in the order of the mapping, one wholly     *)
(* before the next; a call starts only after the previous one has ended.   *)
C6_Ordered ==
    /\ Calls # <<>> => Calls[1].num = 1
    /\ \A i \in 1..(Len(Calls) - 1) :
          IF Calls[i].cat = Calls[i + 1].cat
          THEN Calls[i + 1].num = Calls[i].num + 1
          ELSE /\ CatPos(Calls[i].cat) < CatPos(Calls[i + 1].cat)
               /\ Calls[i].num = Calls[i].total
               /\ Calls[i + 1].num = 1
    /\ pc = "done" =>
          \A k \in 1..Len(categories) :
             [i \in 1..Len(CallsOf(categories[k][1])) |-> CallsOf(categories[k][1])[i].num]
                = [i \in 1..Ceil(categories[k][2], batch_size) |-> i]
    /\ \A i, j \in 1..Len(trace) :
          (i < j /\ IsCall(trace[i]) /\ IsCall(trace[j])) =>
             \E k \in (i + 1)..(j - 1) :
                /\ IsEnd(trace[k])
                /\ trace[k].cat = trace[i].cat
                /\ trace[k].num = trace[i].num
    /\ pc # "in_call" =>
          (trace # <<>> => ~IsCall(trace[Len(trace)]))

C6_Witness ==
    /\ pc = "done"
    /\ Len(categories) = 2
    /\ categories[1][1] = "Cards"
    /\ Len(CallsOf("Cards")) = 2
    /\ Len(CallsOf("Loans")) = 2

(* C7: after a batch the scheduler sleeps for the inter-batch delay        *)
(* exactly when batchIndex < batchCount: one sleep between two consecutive *)
(* calls of a category, none after its last batch, max(batchCount - 1, 0)  *)
(* in all, failed batches included.                                        *)
C7_SleepBetweenBatches ==
    /\ \A i \in 1..Len(trace) :
          trace[i].ev = "sleep" =>
             /\ trace[i].secs = delay
             /\ trace[i].num < trace[i].total
             /\ i > 1 /\ IsEnd(trace[i - 1])
             /\ trace[i - 1].cat = trace[i].cat /\ trace[i - 1].num = trace[i].num
    /\ \A i, j \in 1..Len(trace) :
          (i < j /\ IsCall(trace[i]) /\ IsCall(trace[j])
             /\ trace[i].cat = trace[j].cat /\ trace[j].num = trace[i].num + 1) =>
             Cardinality({k \in (i + 1)..(j - 1) : trace[k].ev = "sleep"}) = 1
    /\ \A i \in 1..Len(trace) :
          (IsEnd(trace[i]) /\ trace[i].num < trace[i].total /\ i < Len(trace)) =>
             trace[i + 1].ev = "sleep"
    /\ pc = "done" =>
          \A k \in 1..Len(categories) :
             LET n == Ceil(categories[k][2], batch_size)
             IN  Len(SleepsOf(categories[k][1])) = IF n > 0 THEN n - 1 ELSE 0

\* three batches, the second of which fails, and two sleeps
C7_Witness ==
    /\ pc = "done"
    /\ \E k \in 1..Len(categories) :
          /\ Len(CallsOf(categories[k][1])) = 3
          /\ Len(SleepsOf(categories[k][1])) = 2
          /\ \E i \in 1..Len(trace) :
                /\ BatchFailed(trace[i])
                /\ trace[i].cat = categories[k][1]
                /\ trace[i].num = 2

-----------------------------------------------------------------------------
(* FAQValidator (validate_data.py).                                        *)

REQUIRED_FIELDS     == <<"question", "answer", "category">>
VALID_DIFFICULTIES  == {"basic", "intermediate", "advanced"}
VALID_SEGMENTS      == {"retail", "business", "wealth_management"}
MIN_QUESTION_LENGTH == 10
MAX_QUESTION_LENGTH == 500
MIN_ANSWER_LENGTH   == 100
MAX_ANSWER_LENGTH   == 2000
MIN_KEYWORDS        == 1
MAX_KEYWORDS        == 10

\* threshold=0.3 of _has_repetitive_content, as the fraction 3/10
ThresholdNum == 3
ThresholdDen == 10

\* an entry of self.errors or self.warnings: "FAQ #idx: <kind> ..." with the
\* field name or value (what) and the number (n) the message quotes
Entry(idx, kind, what, n) == [idx |-> idx, kind |-> kind, what |-> what, n |-> n]

\* "not faq[field]" is false: the value is non-empty
FieldTruthy(faq, field) ==
    IF field = "category" THEN faq[field] # "" ELSE Truthy(faq[field])

\* lines 95-98: one error for every required field absent or empty
RequiredErrors(faq, idx) ==
    LET missing == SelectSeq(REQUIRED_FIELDS,
                             LAMBDA f : f \notin DOMAIN faq \/ ~FieldTruthy(faq, f))
    IN  [i \in 1..Len(missing) |-> Entry(idx, "Missing required field", missing[i], 0)]

\* lines 104-115
QuestionWarnings(faq, idx) ==
    LET question == Strip(faq.question)
        len      == StrLen(question)
    IN  (IF len < MIN_QUESTION_LENGTH
         THEN <<Entry(idx, "Question too short", "", len)>>
         ELSE IF len > MAX_QUESTION_LENGTH
         THEN <<Entry(idx, "Question too long", "", len)>>
         ELSE <<>>)
        \o (IF ~EndsWith(question, "?")
            THEN <<Entry(idx, "Question doesn't end with '?'", "", 0)>>
            ELSE <<>>)

\* mutant of AnswerWarnings: both bounds are themselves out of range
AnswerWarningsInclusive(faq, idx) ==
    LET len == StrLen(Strip(faq.answer))
    IN  IF len <= MIN_ANSWER_LENGTH
        THEN <<Entry(idx, "Answer too short", "", len)>>
        ELSE IF len >= MAX_ANSWER_LENGTH
        THEN <<Entry(idx, "Answer too long", "", len)>>
        ELSE <<>>

\* lines 118-124
AnswerWarnings(faq, idx) ==
    LET len == StrLen(Strip(faq.answer))
    IN  IF len < MIN_ANSWER_LENGTH
        THEN <<Entry(idx, "Answer too short", "", len)>>
        ELSE IF len > MAX_ANSWER_LENGTH
        THEN <<Entry(idx, "Answer too long", "", len)>>
        ELSE <<>>

\* mutant of KeywordsCheck: too few keywords is reported as an error
KeywordsCheckStrict(faq, idx) ==
    IF "keywords" \notin DOMAIN faq THEN [errors |-> <<>>, warnings |-> <<>>]
    ELSE IF ~faq.keywords.list
    THEN [errors |-> <<Entry(idx, "Keywords must be a list", "", 0)>>, warnings |-> <<>>]
    ELSE IF faq.keywords.n < MIN_KEYWORDS
    THEN [errors |-> <<Entry(idx, "Too few keywords", "", faq.keywords.n)>>,
          warnings |-> <<>>]
    ELSE IF faq.keywords.n > MAX_KEYWORDS
    THEN [errors |-> <<>>,
          warnings |-> <<Entry(idx, "Too many keywords", "", faq.keywords.n)>>]
    ELSE [errors |-> <<>>, warnings |-> <<>>]

\* lines 127-137
KeywordsCheck(faq, idx) ==
    IF "keywords" \notin DOMAIN faq THEN [errors |-> <<>>, warnings |-> <<>>]
    ELSE IF ~faq.keywords.list
    THEN [errors |-> <<Entry(idx, "Keywords must be a list", "", 0)>>, warnings |-> <<>>]
    ELSE IF faq.keywords.n < MIN_KEYWORDS
    THEN [errors |-> <<>>,
          warnings |-> <<Entry(idx, "Too few keywords", "", faq.keywords.n)>>]
    ELSE IF faq.keywords.n > MAX_KEYWORDS
    THEN [errors |-> <<>>,
          warnings |-> <<Entry(idx, "Too many keywords", "", faq.keywords.n)>>]
    ELSE [errors |-> <<>>, warnings |-> <<>>]

\* lines 140-143
DifficultyErrors(faq, idx) ==
    IF "difficulty" \in DOMAIN faq /\ faq.difficulty \notin VALID_DIFFICULTIES
    THEN <<Entry(idx, "Invalid difficulty", faq.difficulty, 0)>>
    ELSE <<>>

\* mutant of SegmentErrors: the segment is only looked at when the
\* difficulty was accepted
SegmentErrorsElif(faq, idx) ==
    IF "difficulty" \in DOMAIN faq /\ faq.difficulty \notin VALID_DIFFICULTIES
    THEN <<>>
    ELSE IF "segment" \in DOMAIN faq /\ faq.segment \notin VALID_SEGMENTS
    THEN <<Entry(idx, "Invalid segment", faq.segment, 0)>>
    ELSE <<>>

\* lines 146-149
SegmentErrors(faq, idx) ==
    IF "segment" \in DOMAIN faq /\ faq.segment \notin VALID_SEGMENTS
    THEN <<Entry(idx, "Invalid segment", faq.segment, 0)>>
    ELSE <<>>

\* re.split(r'[.!?]+', text): the pieces between maximal runs of terminal
\* punctuation, empty pieces at either end included
RECURSIVE SplitSentences(_, _, _)
SplitSentences(s, cur, inSep) ==
    IF s = <<>> THEN <<cur>>
    ELSE IF Head(s).n = 0 THEN SplitSentences(Tail(s), cur, inSep)
    ELSE IF Head(s).ch \in Terminal
         THEN IF inSep THEN SplitSentences(Tail(s), cur, TRUE)
              ELSE <<cur>> \o SplitSentences(Tail(s), <<>>, TRUE)
    ELSE SplitSentences(Tail(s), Append(cur, Head(s)), FALSE)

\* lines 158-168
HasRepetitiveContent(txt) ==
    LET sentences == SplitSentences(txt, <<>>, FALSE)
        norm(i)   == Lower(Strip(sentences[i]))
        kept      == { i \in 1..Len(sentences) : norm(i) # <<>> }
        count(i)  == Cardinality({ j \in kept : norm(j) = norm(i) })
        max_count == IF kept = {} THEN 0
                     ELSE CHOOSE m \in { count(i) : i \in kept } :
                             \A i \in kept : count(i) <= m
    IN  IF Len(sentences) < 3 THEN FALSE
        ELSE max_count * ThresholdDen > ThresholdNum * Len(sentences)

\* lines 152-154
RepetitiveWarnings(faq, idx) ==
    IF HasRepetitiveContent(Strip(faq.answer))
    THEN <<Entry(idx, "Answer may have repetitive content", "", 0)>>
    ELSE <<>>

\* mutant of ValidateSingle: an out-of-set difficulty or segment is reported
\* as a warning and leaves the record valid
ValidateSingleEnumWarn(faq, idx) ==
    LET req == RequiredErrors(faq, idx)
    IN  IF req # <<>>
        THEN [valid |-> FALSE, errors |-> req, warnings |-> <<>>, faq |-> faq]
        ELSE LET kw   == KeywordsCheck(faq, idx)
                 errs == kw.errors
             IN  [valid    |-> errs = <<>>,
                  errors   |-> errs,
                  warnings |-> QuestionWarnings(faq, idx) \o AnswerWarnings(faq, idx)
                                 \o kw.warnings \o DifficultyErrors(faq, idx)
                                 \o SegmentErrors(faq, idx)
                                 \o RepetitiveWarnings(faq, idx),
                  faq      |-> faq]

\* mutant of ValidateSingle: the stripped question and answer (lines 104 and
\* 118) are stored back into the record
ValidateSingleStripInPlace(faq, idx) ==
    LET req == RequiredErrors(faq, idx)
    IN  IF req # <<>>
        THEN [valid |-> FALSE, errors |-> req, warnings |-> <<>>, faq |-> faq]
        ELSE LET kw   == KeywordsCheck(faq, idx)
                 errs == kw.errors \o DifficultyErrors(faq, idx) \o SegmentErrors(faq, idx)
             IN  [valid    |-> errs = <<>>,
                  errors   |-> errs,
                  warnings |-> QuestionWarnings(faq, idx) \o AnswerWarnings(faq, idx)
                                 \o kw.warnings \o RepetitiveWarnings(faq, idx),
                  faq      |-> [faq EXCEPT !.question = Strip(@),
                                           !.answer = Strip(@)]]

\* validate_single_faq: what it returns, what it appends, and the record as
\* it leaves it (faq is only read: no statement of lines 90-156 assigns to
\* it or to one of its items)
ValidateSingle(faq, idx) ==
    LET req == RequiredErrors(faq, idx)
    IN  IF req # <<>>
        THEN [valid |-> FALSE, errors |-> req, warnings |-> <<>>, faq |-> faq]
        ELSE LET kw   == KeywordsCheck(faq, idx)
                 errs == kw.errors \o DifficultyErrors(faq, idx) \o SegmentErrors(faq, idx)
             IN  [valid    |-> errs = <<>>,
                  errors   |-> errs,
                  warnings |-> QuestionWarnings(faq, idx) \o AnswerWarnings(faq, idx)
                                 \o kw.warnings \o RepetitiveWarnings(faq, idx),
                  faq      |-> faq]

\* mutant of ValidateLoop: enumerate(faqs) without the start value 1
RECURSIVE ValidateLoopFromZero(_, _, _)
ValidateLoopFromZero(v, fs, idx) ==
    IF idx > Len(fs) THEN [v |-> v, faqs |-> fs]
    ELSE LET r == ValidateSingle(fs[idx], idx - 1)
         IN  ValidateLoopFromZero(
               [errors   |-> v.errors \o r.errors,
                warnings |-> v.warnings \o r.warnings,
                stats    |-> [v.stats EXCEPT
                                !.warnings = @ + Len(r.warnings),
                                !.valid    = IF r.valid THEN @ + 1 ELSE @,
                                !.invalid  = IF r.valid THEN @ ELSE @ + 1]],
               [fs EXCEPT ![idx] = r.faq], idx + 1)

\* the loop of validate_faqs, lines 76-82, on the validator's fields v and
\* the list fs: the fields and the list afterwards
RECURSIVE ValidateLoop(_, _, _)
ValidateLoop(v, fs, idx) ==
    IF idx > Len(fs) THEN [v |-> v, faqs |-> fs]
    ELSE LET r == ValidateSingle(fs[idx], idx)
         IN  ValidateLoop(
               [errors   |-> v.errors \o r.errors,
                warnings |-> v.warnings \o r.warnings,
                stats    |-> [v.stats EXCEPT
                                !.warnings = @ + Len(r.warnings),
                                !.valid    = IF r.valid THEN @ + 1 ELSE @,
                                !.invalid  = IF r.valid THEN @ ELSE @ + 1]],
               [fs EXCEPT ![idx] = r.faq], idx + 1)

\* validate_faqs on a validator whose fields are v: the fields afterwards,
\* the value returned, and the list that was passed as it is afterwards
ValidateFaqs(v, fs) ==
    LET l == ValidateLoop([v EXCEPT !.stats.total = Len(fs)], fs, 1)
    IN  [v |-> l.v, result |-> l.v.stats.invalid = 0, faqs |-> l.faqs]

\* __init__
NewValidator == [errors |-> <<>>, warnings |-> <<>>, stats |-> NewStats]

-----------------------------------------------------------------------------
(* Inputs of the validator runs.                                           *)

MaxRecords     == 2   \* most records one validator instance is given in all
MaxValidations == 2   \* most validate_faqs calls on one validator instance

QShort == <<Run("a", 5)>>
QLong  == <<Run("a", 501), Run("?", 1)>>
A99    == <<Run("a", 98), Run(".", 1)>>
ALong  == <<Run("a", 2001)>>
\* "Aaa. aaa. aaa. aaa. bbb." with sentences of 30 characters
ARepeat ==
    <<Run("A", 1), Run("a", 29), Run(".", 1), Run(" ", 1),
      Run("a", 30), Run(".", 1), Run(" ", 1),
      Run("a", 30), Run(".", 1), Run(" ", 1),
      Run("a", 30), Run(".", 1), Run(" ", 1),
      Run("b", 30), Run(".", 1)>>

\* questions and answers at the length limits; QPad10 and APad99 are 10 and
\* 99 characters between surrounding blanks
QPad10 == <<Run(" ", 1), Run("a", 9), Run("?", 1), Run(" ", 1)>>
Q9     == <<Run("a", 8), Run("?", 1)>>
Q500   == <<Run("a", 499), Run("?", 1)>>
Q501   == <<Run("a", 500), Run("?", 1)>>
A100   == <<Run("a", 99), Run(".", 1)>>
A2000  == <<Run("a", 1999), Run(".", 1)>>
APad99 == <<Run(" ", 3), Run("a", 98), Run(".", 1)>>
\* "Aaa. Bbb.": two sentences of 60 characters, the second ending the text
ATwo ==
    <<Run("A", 1), Run("a", 59), Run(".", 1), Run(" ", 1),
      Run("B", 1), Run("b", 59), Run(".", 1)>>
\* "aaa. . . . bbb. ccc": three sentences of 40 characters, the first
\* trailing off in spaced dots
AEllipsis ==
    <<Run("a", 40), Run(".", 1), Run(" ", 1), Run(".", 1), Run(" ", 1),
      Run(".", 1), Run(" ", 1), Run(".", 1), Run(" ", 1),
      Run("b", 40), Run(".", 1), Run(" ", 1), Run("c", 40)>>

Records ==
    { \* complete and clean
      [question |-> Q1, answer |-> A1, category |-> "Loans", subcategory |-> "Loans",
       keywords |-> [list |-> TRUE, n |-> 2], difficulty |-> "basic",
       segment |-> "retail"],
      \* required fields only
      [question |-> Q2, answer |-> A1, category |-> "Cards"],
      \* every heuristic breached, structure intact
      [question |-> QShort, answer |-> A99, category |-> "Loans",
       keywords |-> [list |-> TRUE, n |-> 0], difficulty |-> "advanced",
       segment |-> "business"],
      [question |-> QLong, answer |-> ALong, category |-> "Loans",
       keywords |-> [list |-> TRUE, n |-> 11]],
      [question |-> Q1, answer |-> ARepeat, category |-> "Loans"],
      \* a required field missing together with an out-of-set difficulty
      [question |-> Q1, answer |-> A1, difficulty |-> "extreme"],
      \* an empty question and no answer
      [question |-> <<>>, category |-> "Loans", segment |-> "retail"],
      \* three optional fields wrong at once
      [question |-> Q1, answer |-> A1, category |-> "Loans",
       keywords |-> [list |-> FALSE, n |-> 0], difficulty |-> "extreme",
       segment |-> "corporate"],
      \* what the parser emits for an upstream difficulty of 'extreme'
      [question |-> Q1, answer |-> A1, category |-> "Loans", subcategory |-> "Loans",
       keywords |-> [list |-> TRUE, n |-> 0], difficulty |-> "extreme",
       segment |-> "retail"],
      \* question and answer exactly at a limit, or one character beyond it
      [question |-> QPad10, answer |-> A100, category |-> "Loans"],
      [question |-> Q500, answer |-> A2000, category |-> "Loans"],
      [question |-> Q9, answer |-> APad99, category |-> "Loans"],
      \* answers of two and of three different sentences
      [question |-> Q501, answer |-> ATwo, category |-> "Loans"],
      [question |-> Q1, answer |-> AEllipsis, category |-> "Loans"] }

InitValidate ==
    /\ TestIdle
    /\ errors = NewValidator.errors
    /\ warnings = NewValidator.warnings
    /\ stats = NewValidator.stats
    /\ faqs = <<>>
    /\ result = TRUE
    /\ ncalls = 0
    /\ before = [errors |-> NewValidator.errors, warnings |-> NewValidator.warnings,
                 stats |-> NewValidator.stats, faqs |-> <<>>]
    /\ file = NoFile
    /\ caught = "none"
    /\ ParseIdle
    /\ SchedIdle

\* one call validate_faqs(fs) on the instance
CallValidateFaqs ==
    /\ ncalls < MaxValidations
    /\ \E k \in 0..(MaxRecords - (stats.valid + stats.invalid)) :
         \E fs \in [1..k -> Records] :
            LET now == [errors |-> errors, warnings |-> warnings, stats |-> stats]
                r   == ValidateFaqs(now, fs)
            IN  /\ before' = [errors |-> errors, warnings |-> warnings,
                               stats |-> stats, faqs |-> fs]
                /\ faqs' = r.faqs
                /\ errors' = r.v.errors
                /\ warnings' = r.v.warnings
                /\ stats' = r.v.stats
                /\ result' = r.result
    /\ ncalls' = ncalls + 1
    /\ UNCHANGED <<file, caught, parseVars, schedVars, testVars>>

NextValidate == CallValidateFaqs

SpecValidate == InitValidate /\ [][NextValidate]_vars

-----------------------------------------------------------------------------
(* Reading the report of the last validate_faqs call.                      *)

\* the entries the last call appended
NewErrors   == SubSeq(errors, Len(before.errors) + 1, Len(errors))
NewWarnings == SubSeq(warnings, Len(before.warnings) + 1, Len(warnings))

Present(faq, f) == f \in DOMAIN faq /\ FieldTruthy(faq, f)

\* the structural checks a record violates, as (message, field or value) pairs
ViolatedChecks(faq) ==
    { <<"Missing required field", f>> :
         f \in { g \in {"question", "answer", "category"} : ~Present(faq, g) } }
    \cup (IF "keywords" \in DOMAIN faq /\ ~faq.keywords.list
          THEN { <<"Keywords must be a list", "">> } ELSE {})
    \cup (IF "difficulty" \in DOMAIN faq
             /\ faq.difficulty \notin {"basic", "intermediate", "advanced"}
          THEN { <<"Invalid difficulty", faq.difficulty>> } ELSE {})
    \cup (IF "segment" \in DOMAIN faq
             /\ faq.segment \notin {"retail", "business", "wealth_management"}
          THEN { <<"Invalid segment", faq.segment>> } ELSE {})

StructurallyValid(faq) == ViolatedChecks(faq) = {}

StructuralMessages ==
    { "Missing required field", "Keywords must be a list",
      "Invalid difficulty", "Invalid segment" }

\* the error entries the last call reported for the record at position i
ErrorsAt(i) ==
    { <<NewErrors[k].kind, NewErrors[k].what>> :
         k \in { m \in 1..Len(NewErrors) : NewErrors[m].idx = i } }

ErrorCountAt(i) == Cardinality({ m \in 1..Len(NewErrors) : NewErrors[m].idx = i })

(* C8: validate_faqs counts a record valid exactly when it passes every    *)
(* structural check; heuristic breaches only add warnings: they add no     *)
(* error and do not change the classification.                             *)
C8_ValidIffStructural ==
    ncalls > 0 =>
       /\ stats.valid - before.stats.valid
             = Cardinality({ i \in 1..Len(faqs) : StructurallyValid(faqs[i]) })
       /\ stats.invalid - before.stats.invalid
             = Cardinality({ i \in 1..Len(faqs) : ~StructurallyValid(faqs[i]) })
       /\ \A k \in 1..Len(NewErrors) :
             /\ NewErrors[k].kind \in StructuralMessages
             /\ ~StructurallyValid(faqs[NewErrors[k].idx])
       /\ \A k \in 1..Len(NewWarnings) :
             NewWarnings[k].kind \notin StructuralMessages
       /\ stats.warnings - before.stats.warnings = Len(NewWarnings)

\* a record that breaches four heuristics is counted valid, with no error
C8_Witness ==
    /\ ncalls = 1
    /\ Len(faqs) = 1
    /\ Len(NewWarnings) = 4
    /\ NewErrors = <<>>
    /\ stats.valid = 1
    /\ stats.invalid = 0

(* C9, as stated: every structural check a record violates has its entry   *)
(* in the report, whatever other checks the record fails.                  *)
C9_AllChecksReported ==
    ncalls > 0 => \A i \in 1..Len(faqs) : ErrorsAt(i) = ViolatedChecks(faqs[i])

(* C9, amended: the three required-field checks are evaluated              *)
(* independently of each other; the keywords, difficulty and segment       *)
(* checks are evaluated, independently of each other, only for a record    *)
(* that has all required fields; a record lacking a required field gets    *)
(* entries for its missing fields only.                                    *)
C9_ChecksAfterRequiredFields ==
    ncalls > 0 =>
       \A i \in 1..Len(faqs) :
          LET missing == { c \in ViolatedChecks(faqs[i]) : c[1] = "Missing required field" }
          IN  /\ ErrorsAt(i) = IF missing # {} THEN missing ELSE ViolatedChecks(faqs[i])
              /\ ErrorCountAt(i) = Cardinality(ErrorsAt(i))

\* a record without category and with difficulty 'extreme' gets one entry; a
\* record with three wrong optional fields gets three
C9_Witness ==
    /\ ncalls = 1
    /\ Len(faqs) = 2
    /\ "category" \notin DOMAIN faqs[1]
    /\ "difficulty" \in DOMAIN faqs[1] /\ faqs[1].difficulty = "extreme"
    /\ ErrorCountAt(1) = 1
    /\ ErrorCountAt(2) = 3

(* C10: validating a sequence yields the report a first validation of that *)
(* sequence yields: same counts, same ordered errors and warnings, same    *)
(* result, whatever was validated before.                                  *)
C10_ReportIsFunctionOfInput ==
    ncalls > 0 =>
       LET first == ValidateFaqs(NewValidator, faqs)
       IN  /\ stats = first.v.stats
           /\ errors = first.v.errors
           /\ warnings = first.v.warnings
           /\ result = first.result

-----------------------------------------------------------------------------
(* The rules BankingFAQGenerator._parse_response applies to each element.  *)

(* C11: the parser discards an element that lacks a question or an answer  *)
(* key or whose question or answer is empty, and keeps every other element *)
(* of the response; so every returned record has a non-empty question and  *)
(* a non-empty answer.                                                     *)
C11_EmptyDiscarded ==
    parser = "banking" =>
       LET d == JsonLoads(BankingFenceStrip(text))
       IN  (d.ok /\ d.v.kind \in {"array", "object"}) =>
             LET good == SelectSeq(DecodedObjects(d.v), WellFormedObject)
             IN  /\ Len(parsed.recs) = Len(good)
                 /\ \A i \in 1..Len(good) :
                       /\ parsed.recs[i].question = good[i].obj.question
                       /\ parsed.recs[i].answer = good[i].obj.answer
                 /\ \A i \in 1..Len(parsed.recs) :
                       /\ HasText(parsed.recs[i], "question")
                       /\ HasText(parsed.recs[i], "answer")

\* the elements the loop of lines 101-112 turns into records
HasBothKeys(j) == j.kind = "object" /\ {"question", "answer"} \subseteq DOMAIN j.obj

OptionalFields == {"subcategory", "keywords", "difficulty", "segment"}

DefaultOf(k, cat) ==
    CASE k = "subcategory" -> [s |-> cat, kw |-> [list |-> TRUE, n |-> 0]]
      [] k = "keywords"    -> [s |-> "", kw |-> [list |-> TRUE, n |-> 0]]
      [] k = "difficulty"  -> [s |-> "basic", kw |-> [list |-> TRUE, n |-> 0]]
      [] k = "segment"     -> [s |-> "retail", kw |-> [list |-> TRUE, n |-> 0]]

\* the value of optional field k of a record, in the shape DefaultOf has
FieldOf(o, k) ==
    IF k = "keywords" THEN [s |-> "", kw |-> o[k]]
    ELSE [s |-> o[k], kw |-> [list |-> TRUE, n |-> 0]]

(* C12: every record BankingFAQGenerator._parse_response returns carries   *)
(* subcategory, keywords, difficulty and segment; a value the upstream     *)
(* object supplied is kept unchanged, an absent one is filled with         *)
(* subcategory = the category, keywords = [], difficulty = 'basic',        *)
(* segment = 'retail'.                                                     *)
C12_OptionalFieldsResolved ==
    (parser = "banking" /\ parsed.recs # <<>>) =>
       LET d    == JsonLoads(BankingFenceStrip(text))
           kept == SelectSeq(DecodedObjects(d.v), HasBothKeys)
       IN  /\ Len(parsed.recs) = Len(kept)
           /\ \A i \in 1..Len(kept) : \A k \in OptionalFields :
                 /\ k \in DOMAIN parsed.recs[i]
                 /\ FieldOf(parsed.recs[i], k) =
                       IF k \in DOMAIN kept[i].obj THEN FieldOf(kept[i].obj, k)
                       ELSE DefaultOf(k, category)

\* two records of one response: the first keeps the four values it came
\* with, the second is filled with the four defaults
C12_Witness ==
    /\ parser = "banking"
    /\ category = "Loans"
    /\ Len(parsed.recs) = 2
    /\ parsed.recs[1].subcategory = "Sub"
    /\ parsed.recs[1].keywords = [list |-> TRUE, n |-> 2]
    /\ parsed.recs[1].difficulty = "extreme"
    /\ parsed.recs[1].segment = "business"
    /\ parsed.recs[2].subcategory = "Loans"
    /\ parsed.recs[2].keywords = [list |-> TRUE, n |-> 0]
    /\ parsed.recs[2].difficulty = "basic"
    /\ parsed.recs[2].segment = "retail"

-----------------------------------------------------------------------------
(* A response parsed, and the records it gave validated by a new           *)
(* FAQValidator.                                                           *)

QApr == <<Run("W", 1), Run("a", 10), Run("?", 1)>>
A150 == <<Run("a", 149), Run(".", 1)>>

\* responses of one object with nothing but question, answer and one
\* out-of-set value
ScenarioTexts ==
    UNION { Wrapped(JArray(<<JObject(o)>>)) :
              o \in { [question |-> QApr, answer |-> A150, difficulty |-> "extreme"],
                      [question |-> QApr, answer |-> A150, segment |-> "corporate"] } }

InitParseValidate ==
    /\ text \in Texts \cup ScenarioTexts
    /\ category \in ParseCategories
    /\ parser = "none"
    /\ parsed = [raised |-> FALSE, recs |-> <<>>]
    /\ SchedIdle
    /\ ValIdle
    /\ TestIdle

\* FAQValidator().validate_faqs(records), records being what the parser returned
ValidateParsed ==
    /\ parser # "none"
    /\ ncalls = 0
    /\ LET r == ValidateFaqs(NewValidator, parsed.recs)
       IN  /\ before' = [errors |-> NewValidator.errors,
                          warnings |-> NewValidator.warnings,
                          stats |-> NewValidator.stats, faqs |-> parsed.recs]
           /\ faqs' = r.faqs
           /\ errors' = r.v.errors
           /\ warnings' = r.v.warnings
           /\ stats' = r.v.stats
           /\ result' = r.result
    /\ ncalls' = 1
    /\ UNCHANGED <<file, caught, parseVars, schedVars, testVars>>

NextParseValidate == RunBankingParse \/ RunBatchParse \/ ValidateParsed

SpecParseValidate == InitParseValidate /\ [][NextParseValidate]_vars

\* the response decodes to exactly one object, with a non-empty question and
\* answer, whose field k holds a value outside allowed
OneObjectWith(k, allowed) ==
    LET d == JsonLoads(FenceStripOf(parser, text))
    IN  /\ WellFormedResponse(d)
        /\ Len(DecodedObjects(d.v)) = 1
        /\ k \in DOMAIN DecodedObjects(d.v)[1].obj
        /\ DecodedObjects(d.v)[1].obj[k] \notin allowed

UpstreamValue(k) == DecodedObjects(JsonLoads(FenceStripOf(parser, text)).v)[1].obj[k]

\* one record, with the category argument and the upstream value of k; it is
\* the one invalid record of the report, with an error entry of this kind at
\* position 1
RejectedFor(k, kind) ==
    /\ Len(parsed.recs) = 1
    /\ parsed.recs[1].category = category
    /\ parsed.recs[1][k] = UpstreamValue(k)
    /\ stats.total = 1 /\ stats.valid = 0 /\ stats.invalid = 1
    /\ ~result
    /\ \E i \in 1..Len(errors) : errors[i] = Entry(1, kind, UpstreamValue(k), 0)
    /\ \A i \in 1..Len(warnings) : warnings[i].kind \notin {"Invalid difficulty", "Invalid segment"}

(* C13: a difficulty (likewise a segment) outside its set is neither       *)
(* altered nor rejected by the parser, and is an error of validation: a    *)
(* response of one object with such a value, parsed for a category such as *)
(* 'Loans', gives one record with that category and that value, and        *)
(* validating it gives total 1, valid 0, invalid 1 and an error entry      *)
(* "Invalid difficulty '...'" ("Invalid segment '...'") at position 1.     *)
C13_OutOfSetEnumIsError ==
    (ncalls = 1 /\ category # "") =>
       /\ OneObjectWith("difficulty", VALID_DIFFICULTIES)
             => RejectedFor("difficulty", "Invalid difficulty")
       /\ OneObjectWith("segment", VALID_SEGMENTS)
             => RejectedFor("segment", "Invalid segment")

\* the response [{question: 'What is APR?', answer: 150 characters,
\* difficulty: 'extreme'}] parsed for 'Loans' by BankingFAQGenerator
C13_Witness ==
    /\ ncalls = 1
    /\ parser = "banking"
    /\ category = "Loans"
    /\ Len(parsed.recs) = 1
    /\ parsed.recs[1].question = QApr
    /\ parsed.recs[1].answer = A150
    /\ parsed.recs[1].difficulty = "extreme"
    /\ parsed.recs[1].category = "Loans"
    /\ stats = [total |-> 1, valid |-> 0, invalid |-> 1, warnings |-> 1]
    /\ errors = <<Entry(1, "Invalid difficulty", "extreme", 0)>>

-----------------------------------------------------------------------------
(* The heuristic checks of validate_single_faq, read off the report of the *)
(* last validate_faqs call.                                                *)

\* the record has its three required fields, so the heuristic checks run
Complete(faq) == \A f \in {"question", "answer", "category"} : Present(faq, f)

\* the number of warnings of the given kinds the last call issued for the
\* record at position i
WarningCountAt(i, kinds) ==
    Cardinality({ m \in 1..Len(NewWarnings) :
                    NewWarnings[m].idx = i /\ NewWarnings[m].kind \in kinds })

AnswerLengthKinds   == {"Answer too short", "Answer too long"}
QuestionLengthKinds == {"Question too short", "Question too long"}
RepetitiveKinds     == {"Answer may have repetitive content"}

Outside(len, lo, hi) == len < lo \/ len > hi

(* C14, as stated: for a record with its required fields, one answer-length *)
(* warning is issued when the answer has fewer than 100 or more than 2000  *)
(* characters and none otherwise; one question-length warning when the     *)
(* question has fewer than 10 or more than 500 characters and none         *)
(* otherwise.                                                              *)
C14_LengthBounds ==
    ncalls > 0 =>
       \A i \in 1..Len(faqs) :
          Complete(faqs[i]) =>
             /\ WarningCountAt(i, AnswerLengthKinds)
                   = IF Outside(StrLen(faqs[i].answer), 100, 2000) THEN 1 ELSE 0
             /\ WarningCountAt(i, QuestionLengthKinds)
                   = IF Outside(StrLen(faqs[i].question), 10, 500) THEN 1 ELSE 0

(* C14, amended: the same, the lengths being those of the answer and of    *)
(* the question with leading and trailing whitespace removed.              *)
C14_TrimmedLengthBounds ==
    ncalls > 0 =>
       \A i \in 1..Len(faqs) :
          Complete(faqs[i]) =>
             /\ WarningCountAt(i, AnswerLengthKinds)
                   = IF Outside(StrLen(Strip(faqs[i].answer)), 100, 2000) THEN 1 ELSE 0
             /\ WarningCountAt(i, QuestionLengthKinds)
                   = IF Outside(StrLen(Strip(faqs[i].question)), 10, 500) THEN 1 ELSE 0

\* answers of exactly 100 and exactly 2000 characters, with questions of 10
\* and 500, get no length warning
C14_Witness ==
    /\ ncalls = 1
    /\ Len(faqs) = 2
    /\ Complete(faqs[1])
    /\ Complete(faqs[2])
    /\ StrLen(faqs[1].answer) = 100
    /\ StrLen(Strip(faqs[1].question)) = 10
    /\ StrLen(faqs[2].answer) = 2000
    /\ StrLen(faqs[2].question) = 500
    /\ NewWarnings = <<>>
    /\ stats.valid = 2

\* the sentences of an answer: the trimmed, case-folded pieces between runs
\* of sentence-terminal punctuation that are not blank
SentencesOf(answer) ==
    LET pieces == SplitSentences(Strip(answer), <<>>, FALSE)
    IN  SelectSeq([k \in 1..Len(pieces) |-> Lower(Strip(pieces[k]))],
                  LAMBDA x : x # <<>>)

\* the number of occurrences of the most frequent element of a sequence
MostFrequent(segs) ==
    LET occ(k) == Cardinality({ j \in 1..Len(segs) : segs[j] = segs[k] })
    IN  IF segs = <<>> THEN 0
        ELSE CHOOSE m \in { occ(k) : k \in 1..Len(segs) } :
                \A k \in 1..Len(segs) : occ(k) <= m

(* C15: for a record with its required fields whose answer has at least 3  *)
(* sentences, the repetitive-content warning is issued exactly when the    *)
(* occurrences of the most frequent sentence, divided by the number of     *)
(* sentences, exceed 0.3 (10 * max > 3 * number).                          *)
C15_ShareAboveThreshold ==
    ncalls > 0 =>
       \A i \in 1..Len(faqs) :
          LET segs == SentencesOf(faqs[i].answer)
          IN  (Complete(faqs[i]) /\ Len(segs) >= 3) =>
                 WarningCountAt(i, RepetitiveKinds)
                    = IF 10 * MostFrequent(segs) > 3 * Len(segs) THEN 1 ELSE 0

(* C16: for a record with its required fields whose answer has fewer than  *)
(* 3 sentences (one or two), the repetitive-content check is skipped:      *)
(* _has_repetitive_content is false and no such warning is issued.         *)
C16_ShortAnswerSkipped ==
    ncalls > 0 =>
       \A i \in 1..Len(faqs) :
          (Complete(faqs[i]) /\ Len(SentencesOf(faqs[i].answer)) < 3) =>
             /\ ~HasRepetitiveContent(Strip(faqs[i].answer))
             /\ WarningCountAt(i, RepetitiveKinds) = 0

(* C17: validate_faqs leaves the list it was passed as it was: same        *)
(* length, same order, every field of every record unchanged, the invalid  *)
(* records still in it.                                                    *)
C17_RecordsUnchanged ==
    ncalls > 0 => faqs = before.faqs

\* a call on two records, one rejected and one whose question is trimmed for
\* measuring, after which the list is what was passed
C17_Witness ==
    /\ ncalls = 1
    /\ Len(before.faqs) = 2
    /\ ~StructurallyValid(before.faqs[1])
    /\ before.faqs[2].question = QPad10
    /\ stats.invalid = 1
    /\ stats.valid = 1
    /\ faqs = before.faqs

(* C20: of the entries one validate_faqs call over n records adds to the   *)
(* error list and to the warning list, each is tagged with a position p,   *)
(* 1 <= p <= n; in each list the positions never decrease; and a position  *)
(* occurs among the errors exactly when the record there is counted        *)
(* invalid.                                                                *)
C20_PositionsTagged ==
    ncalls > 0 =>
       LET n == Len(faqs)
           errorPositions == { NewErrors[k].idx : k \in 1..Len(NewErrors) }
       IN  /\ \A k \in 1..Len(NewErrors) : NewErrors[k].idx \in 1..n
           /\ \A k \in 1..Len(NewWarnings) : NewWarnings[k].idx \in 1..n
           /\ \A k \in 1..(Len(NewErrors) - 1) : NewErrors[k].idx <= NewErrors[k + 1].idx
           /\ \A k \in 1..(Len(NewWarnings) - 1) :
                 NewWarnings[k].idx <= NewWarnings[k + 1].idx
           /\ errorPositions = { i \in 1..n : ~StructurallyValid(faqs[i]) }
           /\ Cardinality(errorPositions) = stats.invalid - before.stats.invalid

\* a valid record with four warnings followed by a record with three errors
C20_Witness ==
    /\ ncalls = 1
    /\ Len(faqs) = 2
    /\ Len(NewWarnings) = 4
    /\ \A k \in 1..Len(NewWarnings) : NewWarnings[k].idx = 1
    /\ Len(NewErrors) = 3
    /\ \A k \in 1..Len(NewErrors) : NewErrors[k].idx = 2
    /\ stats.valid = 1
    /\ stats.invalid = 1

-----------------------------------------------------------------------------
(* The programs: main of batch_generator.py and of generate_faqs.py, from  *)
(* the construction of the generator to the export, and main of            *)
(* salesforce_import.py on the exported file.                              *)

\* the mapping main of batch_generator.py passes (lines 159-166)
MainCategories ==
    << <<"Account Management", 20>>, <<"Investment Products", 25>>,
       <<"Wealth Management", 25>>, <<"Loans and Mortgages", 20>>,
       <<"Retirement Planning", 20>>, <<"Online Banking", 15>> >>

\* DEFAULT_BATCH_SIZE set to 20 or to 25: 8 or 6 batches in all
MainBatchSizes == {20, 25}

\* the categories section of config.yaml read by BankingFAQGenerator
ConfigCategories ==
    { <<>>, << <<"Loans", 15>> >>, << <<"Loans", 15>>, <<"Cards", 10>> >> }

\* what can be missing: the key, for either program, and the generate_faqs
\* template of config.yaml, which only generate_faqs.py reads
Configs ==
    { c \in [program : {"batch_generator", "generate_faqs"},
             api_key : BOOLEAN, prompt : BOOLEAN] :
        c.program = "batch_generator" => c.prompt }

\* an exception that ends the program, and a hand-over of records
ErrorEvent(what, cat)  == Event(what, cat, 0, 0, 0, NoOutcome, <<>>)
HandOver(what, records) == Event(what, "", 0, 0, 0, NoOutcome, records)

InitMain ==
    /\ config \in Configs
    /\ pc = "main"
    /\ categories = <<>>
    /\ batch_size = 1
    /\ delay = 0
    /\ cat_idx = 0
    /\ batch_num = 0
    /\ num_batches = 0
    /\ cat_faqs = <<>>
    /\ all_faqs = <<>>
    /\ returned = <<>>
    /\ raised = FALSE
    /\ trace = <<>>
    /\ ParseIdle
    /\ ValIdle
    /\ TestIdle

\* batch_generator.py lines 169-170 and 24-33: BatchFAQGenerator(); without
\* a key the ValueError of line 27 reaches the except of main (lines 176-178)
ConstructBatch ==
    /\ pc = "main"
    /\ config.program = "batch_generator"
    /\ IF ~config.api_key
       THEN /\ trace' = Append(trace, ErrorEvent("ValueError", ""))
            /\ pc' = "exit1"
            /\ UNCHANGED <<categories, batch_size, delay>>
       ELSE /\ categories' = MainCategories
            /\ batch_size' \in MainBatchSizes
            /\ delay' \in Delays
            /\ pc' = "all_loop"
            /\ trace' = trace
    /\ UNCHANGED <<config, cat_idx, batch_num, num_batches, cat_faqs, all_faqs,
                   returned, raised, parseVars, valVars, testVars>>

\* batch_generator.py lines 171-175: save_results(faqs) on what
\* generate_all_batched returned; an exception that left it goes to the
\* except of main
SaveResults ==
    /\ pc = "done"
    /\ IF raised
       THEN /\ trace' = Append(trace, ErrorEvent("Exception", ""))
            /\ pc' = "exit1"
       ELSE /\ trace' = Append(trace, HandOver("export", returned))
            /\ pc' = "exit0"
    /\ UNCHANGED <<config, categories, batch_size, delay, cat_idx, batch_num,
                   num_batches, cat_faqs, all_faqs, returned, raised,
                   parseVars, valVars, testVars>>

\* generate_faqs.py lines 268 and 26-47: BankingFAQGenerator(...); without
\* a key the ValueError of line 35 reaches the except of main (lines 297-299)
ConstructBanking ==
    /\ pc = "main"
    /\ config.program = "generate_faqs"
    /\ IF ~config.api_key
       THEN /\ trace' = Append(trace, ErrorEvent("ValueError", ""))
            /\ pc' = "exit1"
            /\ categories' = categories
       ELSE /\ categories' \in ConfigCategories
            /\ pc' = "faqs_loop"
            /\ trace' = trace
    /\ UNCHANGED <<config, batch_size, delay, cat_idx, batch_num, num_batches,
                   cat_faqs, all_faqs, returned, raised, parseVars, valVars, testVars>>

\* mutant of BankingIssueCall: without a template a built-in prompt is used
BankingIssueCallBuiltInPrompt ==
    /\ pc = "faqs_loop"
    /\ cat_idx < Len(categories)
    /\ cat_idx' = cat_idx + 1
    /\ trace' = Append(trace, Event("call", CurrentPair(categories, cat_idx + 1)[1],
                                    1, 1, 0, NoOutcome, <<>>))
    /\ pc' = "faqs_call"
    /\ UNCHANGED <<config, categories, batch_size, delay, batch_num, num_batches,
                   cat_faqs, all_faqs, returned, raised, parseVars, valVars, testVars>>

\* generate_faqs.py lines 131-134 and 61-68: the next category, get_prompt
\* (config_loader.py lines 113-116: ValueError when the template is not
\* there, raised outside the try of generate_category_faqs), then the
\* generation call
BankingIssueCall ==
    /\ pc = "faqs_loop"
    /\ cat_idx < Len(categories)
    /\ cat_idx' = cat_idx + 1
    /\ IF ~config.prompt
       THEN /\ trace' = Append(trace, ErrorEvent("ValueError",
                                                 CurrentPair(categories, cat_idx + 1)[1]))
            /\ pc' = "exit1"
       ELSE /\ trace' = Append(trace, Event("call", CurrentPair(categories, cat_idx + 1)[1],
                                            1, 1, 0, NoOutcome, <<>>))
            /\ pc' = "faqs_call"
    /\ UNCHANGED <<config, categories, batch_size, delay, batch_num, num_batches,
                   cat_faqs, all_faqs, returned, raised, parseVars, valVars, testVars>>

\* generate_faqs.py lines 67-72 and 135: the call ends, the response is
\* parsed (an exception gives []), the aggregate is extended
BankingCallEnds ==
    /\ pc = "faqs_call"
    /\ \E outcome \in Outcomes :
         LET cat  == CurrentPair(categories, cat_idx)[1]
             recs == IF outcome.fails THEN <<>> ELSE BankingParse(outcome.text, cat).recs
         IN  /\ trace' = Append(trace, Event(IF outcome.fails THEN "failed" ELSE "returned",
                                             cat, 1, 1, 0, outcome, recs))
             /\ all_faqs' = all_faqs \o recs
    /\ pc' = "faqs_loop"
    /\ UNCHANGED <<config, categories, batch_size, delay, cat_idx, batch_num,
                   num_batches, cat_faqs, returned, raised, parseVars, valVars, testVars>>

\* generate_faqs.py lines 140 and 271-286: generate_all_faqs returns; with
\* no record main exits with status 1, otherwise the records are exported
BankingExport ==
    /\ pc = "faqs_loop"
    /\ cat_idx >= Len(categories)
    /\ returned' = all_faqs
    /\ IF all_faqs = <<>>
       THEN /\ trace' = Append(trace, ErrorEvent("SystemExit", ""))
            /\ pc' = "exit1"
       ELSE /\ trace' = Append(trace, HandOver("export", all_faqs))
            /\ pc' = "exit0"
    /\ UNCHANGED <<config, categories, batch_size, delay, cat_idx, batch_num,
                   num_batches, cat_faqs, all_faqs, raised, parseVars, valVars, testVars>>

\* salesforce_import.py lines 267-292, run on the exported file: the records
\* under 'faqs' are loaded and, when the importer can be constructed
\* (credentials, connection), written to Salesforce
SalesforceImport ==
    /\ pc = "exit0"
    /\ \E connected \in BOOLEAN :
         IF connected
         THEN /\ trace' = Append(trace, HandOver("import", trace[Len(trace)].recs))
              /\ pc' = "imported"
         ELSE /\ trace' = Append(trace, ErrorEvent("Exception", ""))
              /\ pc' = "import_exit1"
    /\ UNCHANGED <<config, categories, batch_size, delay, cat_idx, batch_num,
                   num_batches, cat_faqs, all_faqs, returned, raised,
                   parseVars, valVars, testVars>>

NextMain ==
    \/ ConstructBatch
    \/ StartCategory
    \/ IssueCall
    \/ CallEnds
    \/ SleepBetweenBatches
    \/ EndCategory
    \/ ReturnAll
    \/ SaveResults
    \/ ConstructBanking
    \/ BankingIssueCall
    \/ BankingCallEnds
    \/ BankingExport
    \/ SalesforceImport

SpecMain == InitMain /\ [][NextMain]_vars

HasEvent(kinds) == \E k \in 1..Len(trace) : trace[k].ev \in kinds

(* C18: a configuration failure ends the program before any batch: without *)
(* an API key the constructor raises, without the prompt template the run  *)
(* of generate_faqs.py fails with an error; in both cases no generation    *)
(* call has been issued when the failure occurs, and none is issued after. *)
C18_ConfigFailureBeforeAnyCall ==
    LET noKey    == ~config.api_key
        noPrompt == config.program = "generate_faqs" /\ config.api_key /\ ~config.prompt
    IN  /\ (noKey /\ pc # "main") =>
              /\ pc = "exit1"
              /\ trace = <<ErrorEvent("ValueError", "")>>
        /\ noPrompt =>
              /\ pc \in {"main", "faqs_loop", "exit1"}
              /\ pc = "faqs_loop" => cat_idx = 0
              /\ pc = "exit1" => HasEvent({"ValueError", "SystemExit"})
        /\ (noKey \/ noPrompt) => ~HasEvent({"call", "export", "import"})

\* generate_faqs.py with a key, two categories and no prompt template: the
\* first get_prompt ended the run
C18_Witness ==
    /\ config = [program |-> "generate_faqs", api_key |-> TRUE, prompt |-> FALSE]
    /\ Len(categories) = 2
    /\ pc = "exit1"
    /\ trace = <<ErrorEvent("ValueError", categories[1][1])>>

(* C19: in a run from generation to hand-over the validator is invoked     *)
(* exactly once, after all categories, and the records reach the export    *)
(* file and the Salesforce import only after that validation.              *)
C19_ValidatedBeforeHandOver ==
    HasEvent({"export", "import"}) => (ncalls = 1 /\ stats.total = Len(returned))

-----------------------------------------------------------------------------
(* Progress of generate_all_batched.  The method is straight-line code in  *)
(* two bounded for loops: a step that can be taken is taken (the sleeps    *)
(* end, and a generation call returns or raises).                          *)

FairSpec == Spec /\ WF_vars(Next)

\* the run is over: generate_all_batched has returned the aggregate and every
\* batch of every category has been attempted
Completed ==
    /\ pc = "done"
    /\ ~raised
    /\ returned = all_faqs
    /\ \A k \in 1..Len(categories) :
          LET c == CallsOf(categories[k][1])
          IN  /\ Len(c) = NumBatches(categories[k][2], batch_size)
              /\ \A b \in 1..Len(c) : c[b].num = b

(* C21: whatever the mapping and whichever batches fail, provided each     *)
(* generation call returns or raises, every scheduled batch of every       *)
(* category is eventually attempted and generate_all_batched eventually    *)
(* returns the aggregate.                                                  *)
C21_RunCompletes == <>Completed

\* a completed run of two categories in which every call raised
C21_Witness ==
    /\ Completed
    /\ Len(categories) = 2
    /\ Len(Calls) = 3
    /\ \A i \in 1..Len(trace) : IsEnd(trace[i]) => trace[i].out.fails
    /\ returned = <<>>

-----------------------------------------------------------------------------
(* The pause between two categories.                                       *)

\* trace[i] ends the last batch of a category and trace[j] is the first
\* generation call of the category that follows it in the mapping
CategoryChange(i, j) ==
    /\ i < j
    /\ IsEnd(trace[i])
    /\ trace[i].num = trace[i].total
    /\ IsCall(trace[j])
    /\ trace[j].num = 1
    /\ CatPos(trace[j].cat) = CatPos(trace[i].cat) + 1

\* what happened between trace[i] and trace[j]: one sleep, of the same
\* length whatever the run
OnePause(i, j) ==
    /\ j = i + 2
    /\ trace[i + 1].ev = "category_sleep"
    /\ trace[i + 1].secs = 1

(* C22, as stated: between the last batch of a category and the first call *)
(* of the next there is one pause of fixed length, and it is shorter than  *)
(* the configured pause between batches.                                   *)
C22_ShorterCategoryDelay ==
    \A i \in 1..Len(trace) : \A j \in 1..Len(trace) :
       CategoryChange(i, j) => (OnePause(i, j) /\ trace[i + 1].secs < delay)

(* C22, amended: between the last batch of a category and the first call   *)
(* of the next there is one pause of 1 second, whatever the configured     *)
(* pause between batches; it is the shorter of the two when that pause is  *)
(* configured above 1 second, as the default of 2 seconds is.              *)
C22_FixedCategoryDelay ==
    \A i \in 1..Len(trace) : \A j \in 1..Len(trace) :
       CategoryChange(i, j) =>
          /\ OnePause(i, j)
          /\ delay > 1 => trace[i + 1].secs < delay

\* two categories of two batches each, with the default pause of 2 seconds
\* between batches and 1 second between the categories
C22_Witness ==
    /\ pc = "done"
    /\ delay = 2
    /\ Len(categories) = 2
    /\ Len(Calls) = 4
    /\ \E i \in 1..Len(trace) : CategoryChange(i, i + 2) /\ trace[i + 1].secs = 1
    /\ \E i \in 1..Len(trace) : trace[i].ev = "sleep" /\ trace[i].secs = 2

-----------------------------------------------------------------------------
(* The two _parse_response methods on the same response.                   *)

(* C23: the records the batch path accumulates have gone through the rules *)
(* of BankingFAQGenerator._parse_response: each has a question and an      *)
(* answer, the category of the batch, and subcategory, keywords,           *)
(* difficulty and segment (defaulted when absent); the batch parser        *)
(* returns what the Banking parser returns on the same response.           *)
C23_SameRecordsAsBanking ==
    parser = "batch" =>
       /\ parsed.recs = BankingParse(text, category).recs
       /\ \A i \in 1..Len(parsed.recs) :
             {"question", "answer", "category"} \cup OptionalFields
                \subseteq DOMAIN parsed.recs[i]

-----------------------------------------------------------------------------
(* Which fragment of a fenced response is decoded.                         *)

\* the stripped fragments of a text, in order
Fragments(tx) ==
    LET parts == SplitFence(TextStrip(tx))
    IN  [k \in 1..Len(parts) |-> TextStrip(parts[k])]

\* the payloads of the fragments that begin with the language tag
TaggedPayloads(tx) ==
    { TextStrip(Tail(Fragments(tx)[k])) :
        k \in { m \in 1..Len(Fragments(tx)) : StartsWithTag(Fragments(tx)[m]) } }

BracketFragments(tx) == SelectSeq(Fragments(tx), StartsWithBracket)

(* C24: of a response that holds the fence delimiter, the text decoded is  *)
(* the payload of a fragment that begins with the language tag whenever    *)
(* there is one, even after a fragment that begins with '[' or '{'; with   *)
(* no tagged fragment it is the first fragment that begins with '[' or     *)
(* '{'; of a response without the delimiter it is the whole text.          *)
C24_TaggedFragmentPreferred ==
    parser # "none" =>
       LET decoded == FenceStripOf(parser, text)
       IN  IF ~HasFence(text) THEN decoded = TextStrip(text)
           ELSE IF TaggedPayloads(text) # {} THEN decoded \in TaggedPayloads(text)
           ELSE BracketFragments(text) # <<>> => decoded = BracketFragments(text)[1]

-----------------------------------------------------------------------------
(* The aggregate of generate_all_batched.                                  *)

IsPrefix(a, b) == Len(a) <= Len(b) /\ SubSeq(b, 1, Len(a)) = a

\* what batch b of the k-th category yielded, <<>> while it has not ended
YieldOf(k, b) ==
    LET ends == { i \in 1..Len(trace) :
                    /\ IsEnd(trace[i])
                    /\ trace[i].cat = categories[k][1]
                    /\ trace[i].num = b }
    IN  IF ends = {} THEN <<>> ELSE trace[CHOOSE i \in ends : TRUE].recs

RECURSIVE YieldOfBatches(_, _)
YieldOfBatches(k, b) ==
    IF b = 0 THEN <<>> ELSE YieldOfBatches(k, b - 1) \o YieldOf(k, b)

\* the yields of the first k categories, category by category and, within a
\* category, batch by batch
RECURSIVE YieldOfCategories(_)
YieldOfCategories(k) ==
    IF k = 0 THEN <<>>
    ELSE YieldOfCategories(k - 1)
           \o YieldOfBatches(k, NumBatches(categories[k][2], batch_size))

\* the categories whose records have been added to the aggregate
CategoriesAdded == IF pc \in {"batch_loop", "in_call", "sleep"} THEN cat_idx - 1 ELSE cat_idx

(* C25: the aggregate only grows at its end: at every step it is a prefix  *)
(* of what it is afterwards, and it is the concatenation, in the order of  *)
(* the mapping and then of the batches, of what the batches yielded.       *)
C25_AppendOnlyAggregate ==
    [][/\ IsPrefix(all_faqs, all_faqs')
       /\ all_faqs' = YieldOfCategories(CategoriesAdded)'
       /\ pc' = "done" => returned' = YieldOfCategories(Len(categories))']_vars

\* two categories, four records in the aggregate, two from each
C25_Witness ==
    /\ pc = "done"
    /\ Len(categories) = 2
    /\ Len(returned) = 4
    /\ returned[1].category = categories[1][1]
    /\ returned[2].category = categories[1][1]
    /\ returned[3].category = categories[2][1]
    /\ \E i \in 1..Len(trace) : IsEnd(trace[i]) /\ trace[i].recs = <<>>

-----------------------------------------------------------------------------
(* The counters of one validator over several validate_faqs calls.         *)

(* C26: after every validate_faqs call on an instance, whatever was        *)
(* validated on it before, stats.total = stats.valid + stats.invalid,      *)
(* stats.total is the number of records just validated, and the call       *)
(* returns true exactly when no record of that sequence is invalid.        *)
C26_CountersPartitionTotal ==
    ncalls > 0 =>
       /\ stats.total = stats.valid + stats.invalid
       /\ stats.total = Len(faqs)
       /\ result = (\A i \in 1..Len(faqs) : ValidateSingle(faqs[i], i).valid)

-----------------------------------------------------------------------------
(* The parser's defaults under the validator's structural checks.          *)

\* the positions of the records whose upstream object had a non-empty
\* question and answer and none of keywords, difficulty and segment
DefaultedRecords ==
    LET d    == JsonLoads(BankingFenceStrip(text))
        kept == SelectSeq(DecodedObjects(d.v), HasBothKeys)
    IN  { i \in 1..Len(parsed.recs) :
            /\ WellFormedObject(kept[i])
            /\ DOMAIN kept[i].obj \cap {"keywords", "difficulty", "segment"} = {} }

(* C27: a record BankingFAQGenerator._parse_response returns for a         *)
(* non-empty category, from an object with a non-empty question and answer *)
(* and without keywords, difficulty and segment, is counted valid by a new *)
(* validator and gets no error entry.                                      *)
C27_DefaultsPassValidation ==
    (ncalls = 1 /\ parser = "banking" /\ category # "") =>
       /\ \A i \in DefaultedRecords :
             /\ ErrorCountAt(i) = 0
             /\ ValidateSingle(faqs[i], i).valid
       /\ stats.valid >= Cardinality(DefaultedRecords)
       /\ DefaultedRecords = 1..Len(parsed.recs) =>
             (result /\ errors = <<>> /\ stats.valid = stats.total)

\* two records of one response: the first came with an out-of-set
\* difficulty and is invalid, the second was filled with the defaults and
\* is valid, with a warning for its empty keywords
C27_Witness ==
    /\ ncalls = 1
    /\ parser = "banking"
    /\ category = "Loans"
    /\ Len(parsed.recs) = 2
    /\ DefaultedRecords = {2}
    /\ parsed.recs[2].difficulty = "basic"
    /\ parsed.recs[2].segment = "retail"
    /\ parsed.recs[2].keywords = [list |-> TRUE, n |-> 0]
    /\ stats.total = 2 /\ stats.valid = 1 /\ stats.invalid = 1
    /\ ErrorCountAt(1) > 0
    /\ \E k \in 1..Len(warnings) : warnings[k].idx = 2 /\ warnings[k].kind = "Too few keywords"

-----------------------------------------------------------------------------
(* The number of records a category's batches ask for.                     *)

RECURSIVE SumRequested(_)
SumRequested(calls) ==
    IF calls = <<>> THEN 0 ELSE calls[1].requested + SumRequested(Tail(calls))

\* the categories all of whose batches have been issued
Issued(k) ==
    \/ k < cat_idx
    \/ k = cat_idx /\ batch_num = num_batches /\ pc \in {"batch_loop", "in_call", "all_loop", "done"}

(* C28: every batch, the last included, asks for batch_size records; for a *)
(* category of totalCount >= 1 records (batchSize >= 1) the records asked  *)
(* for are batchCount * batchSize in all, at least totalCount and less     *)
(* than totalCount + batchSize, and are totalCount only when batchSize     *)
(* divides totalCount.                                                     *)
C28_RequestedIsBatchesTimesSize ==
    /\ \A i \in 1..Len(trace) : IsCall(trace[i]) => trace[i].requested = batch_size
    /\ \A k \in 1..Len(categories) :
          (Issued(k) /\ categories[k][2] >= 1 /\ batch_size >= 1) =>
             LET total == categories[k][2]
                 req   == SumRequested(CallsOf(categories[k][1]))
             IN  /\ req = NumBatches(total, batch_size) * batch_size
                 /\ req = Len(CallsOf(categories[k][1])) * batch_size
                 /\ total <= req
                 /\ req < total + batch_size
                 /\ req = total => total % batch_size = 0

\* 25 records in batches of 10: three calls ask for 30 records
C28_Witness ==
    /\ pc = "done"
    /\ batch_size = 10
    /\ categories = << <<"Loans", 25>> >>
    /\ Len(CallsOf("Loans")) = 3
    /\ SumRequested(CallsOf("Loans")) = 30
    /\ CallsOf("Loans")[3].requested = 10

-----------------------------------------------------------------------------
(* AgentforceTester of test_full_flow.py: run_full_test and the exit of    *)
(* the script.                                                             *)

\* what response.json() gives: a dict, of which only the key the method
\* reads matters (has: the key is there, val: its value), or a value that
\* is not a dict
Dict(v)  == [kind |-> "dict", has |-> TRUE, val |-> v]
NoKey    == [kind |-> "dict", has |-> FALSE, val |-> PyNone]
NotADict == [kind |-> "other", has |-> FALSE, val |-> PyNone]

\* data.get(key), on a dict
DictGet(b) == IF b.has THEN b.val ELSE PyNone

\* requests.post raised, or the response it returned
Raised == [raises |-> TRUE, status |-> 0, body |-> NotADict]
Response(st, b) == [raises |-> FALSE, status |-> st, body |-> b]

TokenResponses ==
    { Raised, Response(400, NotADict) }
      \cup { Response(200, b) :
               b \in { Dict(PyStr("tokA")), Dict(PyStr("tokB")), Dict(PyStr("")),
                       Dict(PyNone), NoKey, NotADict } }

SessionResponses ==
    { Raised, Response(404, NotADict) }
      \cup { Response(st, b) :
               st \in {200, 201},
               b \in { Dict(PyStr("s1")), Dict(PyStr("s2")), Dict(PyStr("")),
                       Dict(PyNone), NoKey, NotADict } }

\* the 'messages' of a reply: none, one short text, one text of more than
\* 200 characters, one entry whose 'message' is null
MessageResponses ==
    { Raised, Response(500, NotADict) }
      \cup { Response(200, b) :
               b \in { Dict(PyStr("none")), Dict(PyStr("short")), Dict(PyStr("long")),
                       Dict(PyStr("null")), NoKey, NotADict } }

\* a request as it was posted
Request(to, bearer, session, seq, resp) ==
    [to |-> to, bearer |-> bearer, session |-> session, seq |-> seq, resp |-> resp]

\* lines 55-71: the fields afterwards and the value returned.  The token is
\* assigned (line 60) before its first 50 characters are printed (line 62),
\* which is a TypeError on None
GetAccessTokenOn(t, r) ==
    IF r.raises THEN [t |-> t, ret |-> FALSE]
    ELSE IF r.status = 200
         THEN IF r.body.kind # "dict" THEN [t |-> t, ret |-> FALSE]
              ELSE [t   |-> [t EXCEPT !.access_token = DictGet(r.body)],
                    ret |-> DictGet(r.body).py = "str"]
         ELSE [t |-> t, ret |-> FALSE]

\* lines 98-114
CreateSessionOn(t, r) ==
    IF r.raises THEN [t |-> t, ret |-> FALSE]
    ELSE IF r.status \in {200, 201}
         THEN IF r.body.kind # "dict" THEN [t |-> t, ret |-> FALSE]
              ELSE [t   |-> [t EXCEPT !.session_id = DictGet(r.body)],
                    ret |-> TRUE]
         ELSE [t |-> t, ret |-> FALSE]

\* lines 144-175: len(None) of line 160 is a TypeError, caught at line 173
SendMessageOn(t, r) ==
    IF r.raises THEN [t |-> t, ret |-> FALSE]
    ELSE IF r.status = 200
         THEN IF r.body.kind # "dict" \/ DictGet(r.body) = PyStr("null")
              THEN [t |-> t, ret |-> FALSE]
              ELSE [t   |-> [t EXCEPT !.sequence_id = @ + 1],
                    ret |-> TRUE]
         ELSE [t |-> t, ret |-> FALSE]

InitTester ==
    /\ tester = NewTester
    /\ flow = "oauth"
    /\ steps = <<>>
    /\ http = <<>>
    /\ ParseIdle
    /\ SchedIdle
    /\ ValIdle

\* lines 188-192: get_access_token (lines 41-71)
GetAccessToken ==
    /\ flow = "oauth"
    /\ \E r \in TokenResponses :
         LET o == GetAccessTokenOn(tester, r)
         IN  /\ http' = Append(http, Request("token", PyNone, PyNone, 0, r))
             /\ tester' = o.t
             /\ steps' = Append(steps, o.ret)
             /\ flow' = IF o.ret THEN "session" ELSE "stopped"
    /\ UNCHANGED <<parseVars, schedVars, valVars>>

\* lines 195-199: create_session (lines 73-114)
CreateSession ==
    /\ flow = "session"
    /\ IF ~IsSet(tester.access_token)
       THEN /\ steps' = Append(steps, FALSE)
            /\ flow' = "stopped"
            /\ UNCHANGED <<tester, http>>
       ELSE \E r \in SessionResponses :
              LET o == CreateSessionOn(tester, r)
              IN  /\ http' = Append(http, Request("session", tester.access_token,
                                                  PyNone, 0, r))
                  /\ tester' = o.t
                  /\ steps' = Append(steps, o.ret)
                  /\ flow' = IF o.ret THEN "message" ELSE "stopped"
    /\ UNCHANGED <<parseVars, schedVars, valVars>>

\* lines 202-215: send_message (lines 116-175)
SendMessage ==
    /\ flow = "message"
    /\ IF ~IsSet(tester.session_id)
       THEN /\ steps' = Append(steps, FALSE)
            /\ flow' = "stopped"
            /\ UNCHANGED <<tester, http>>
       ELSE \E r \in MessageResponses :
              LET o == SendMessageOn(tester, r)
              IN  /\ http' = Append(http, Request("message", tester.access_token,
                                                  tester.session_id,
                                                  tester.sequence_id, r))
                  /\ tester' = o.t
                  /\ steps' = Append(steps, o.ret)
                  /\ flow' = IF o.ret THEN "passed" ELSE "stopped"
    /\ UNCHANGED <<parseVars, schedVars, valVars>>

\* lines 222-251: the exit status of the script
TesterExit ==
    /\ flow \in {"passed", "stopped"}
    /\ flow' = IF flow = "passed" THEN "exit0" ELSE "exit1"
    /\ UNCHANGED <<tester, steps, http, parseVars, schedVars, valVars>>

NextTester == GetAccessToken \/ CreateSession \/ SendMessage \/ TesterExit

SpecTester == InitTester /\ [][NextTester]_vars

\* the requests posted to the messages endpoint
MessageRequests == SelectSeq(http, LAMBDA q : q.to = "message")

(* C29: in run_full_test, whenever create_session has returned True the    *)
(* session id is set, and the send_message that follows is not turned away *)
(* for a missing session id: it posts its request, with sequenceId 1.      *)
C29_SessionIdSetOnSuccess ==
    (Len(steps) >= 2 /\ steps[2]) =>
       /\ IsSet(tester.session_id)
       /\ Len(steps) >= 3 =>
             /\ Len(MessageRequests) = 1
             /\ MessageRequests[1].seq = 1
             /\ MessageRequests[1].session = tester.session_id

-----------------------------------------------------------------------------
(* validate_file of FAQValidator.                                          *)

\* the elements of the list in a file: a dict of string fields, a number,
\* or a dict whose question is a number (with an answer and a category)
DictItem(r)  == [k |-> "dict", r |-> r]
NumberItem   == [k |-> "number", r |-> [category |-> ""]]
NumQuestion  == [k |-> "numq", r |-> [category |-> "Loans"]]

FileItems ==
    { DictItem([question |-> Q1, answer |-> A1, category |-> "Loans",
                subcategory |-> "Loans", keywords |-> [list |-> TRUE, n |-> 2],
                difficulty |-> "basic", segment |-> "retail"]),
      DictItem([question |-> <<>>, category |-> "Loans", segment |-> "retail"]),
      NumberItem,
      NumQuestion }

\* what a path can hold: nothing, a file that cannot be read, text that is
\* not JSON, or a JSON value: a list, a dict with a list or a number under
\* 'faqs', a dict without 'faqs', a scalar
File(kind, top, items) == [kind |-> kind, top |-> top, items |-> items]

FilesOf(n) ==
    { File("missing", "none", <<>>), File("unreadable", "none", <<>>),
      File("malformed", "none", <<>>), File("json", "scalar", <<>>),
      File("json", "dict_other", <<>>), File("json", "dict_faqs_number", <<>>) }
      \cup UNION { { File("json", top, its) : top \in {"list", "dict_faqs"},
                                              its \in [1..k -> FileItems] } : k \in 0..n }

\* lines 76-82 on a list read from a file: validate_single_faq raises on a
\* number (line 96, TypeError) and on a question that is a number (line
\* 104, AttributeError), in both cases before it has appended anything
RECURSIVE ValidateFileLoop(_, _, _)
ValidateFileLoop(v, its, idx) ==
    IF idx > Len(its) THEN [v |-> v, raised |-> FALSE]
    ELSE IF its[idx].k # "dict" THEN [v |-> v, raised |-> TRUE]
    ELSE LET r == ValidateSingle(its[idx].r, idx)
         IN  ValidateFileLoop(
               [errors   |-> v.errors \o r.errors,
                warnings |-> v.warnings \o r.warnings,
                stats    |-> [v.stats EXCEPT
                                !.warnings = @ + Len(r.warnings),
                                !.valid    = IF r.valid THEN @ + 1 ELSE @,
                                !.invalid  = IF r.valid THEN @ ELSE @ + 1]],
               its, idx + 1)

\* validate_file, lines 46-68, on a validator whose fields are v: the fields
\* afterwards, the value returned and the except clause it ended in
ValidateFile(v, f) ==
    CASE f.kind = "missing"   -> [v |-> v, result |-> FALSE, caught |-> "FileNotFoundError"]
      [] f.kind = "unreadable" -> [v |-> v, result |-> FALSE, caught |-> "Exception"]
      [] f.kind = "malformed" -> [v |-> v, result |-> FALSE, caught |-> "JSONDecodeError"]
      [] OTHER ->
           IF f.top \in {"scalar", "dict_other", "dict_faqs_number"}
           THEN [v |-> v, result |-> FALSE, caught |-> "Exception"]
           ELSE LET l == ValidateFileLoop([v EXCEPT !.stats.total = Len(f.items)],
                                          f.items, 1)
                IN  IF l.raised
                    THEN [v |-> l.v, result |-> FALSE, caught |-> "Exception"]
                    ELSE [v |-> l.v, result |-> l.v.stats.invalid = 0,
                          caught |-> "none"]

InitValidateFile == InitValidate

\* one call validate_file(path) on the instance
CallValidateFile ==
    /\ ncalls < MaxValidations
    /\ \E f \in FilesOf(MaxRecords - (stats.valid + stats.invalid)) :
         LET now == [errors |-> errors, warnings |-> warnings, stats |-> stats]
             r   == ValidateFile(now, f)
         IN  /\ before' = [errors |-> errors, warnings |-> warnings,
                            stats |-> stats, faqs |-> <<>>]
             /\ file' = f
             /\ caught' = r.caught
             /\ errors' = r.v.errors
             /\ warnings' = r.v.warnings
             /\ stats' = r.v.stats
             /\ result' = r.result
    /\ ncalls' = ncalls + 1
    /\ UNCHANGED <<faqs, parseVars, schedVars, testVars>>

NextValidateFile == CallValidateFile

SpecValidateFile == InitValidateFile /\ [][NextValidateFile]_vars

(* C30: validate_file ends in a return of False whenever an exception      *)
(* occurs (file not readable, text that is not JSON, a top-level value of  *)
(* another shape, an exception while validating), and then the stats, the  *)
(* errors and the warnings of the validator are as they were before the    *)
(* call.                                                                   *)
C30_FailureLeavesReportUntouched ==
    (ncalls > 0 /\ caught # "none") =>
       /\ ~result
       /\ stats = before.stats
       /\ errors = before.errors
       /\ warnings = before.warnings

====
